---- MODULE Spec2Model ----
(***************************************************************************)
(* PropertyDealFinder: deal scoring, deal ranking and the underwriting     *)
(* calculator.                                                             *)
(*                                                                         *)
(* Sources modelled:                                                       *)
(*   src/frontend/pages/underwrite.tsx   UnderwritePageContent (lines      *)
(*        47-491) and DealsPageContent (lines 521-1130)                    *)
(*   src/frontend/components/ProtectedRoute.tsx and the pages' default     *)
(*        exports (src/pages/index.tsx, deals.tsx, frontend/pages/*.tsx)   *)
(*   src/docs/SPRINT_4_STATUS.md         DealScoringEngine.scenario_weights*)
(*        and the documented threshold ladders, deal_scores table          *)
(*                                                                         *)
(* Conventions:                                                            *)
(*   - a zip_code is held as the number its five digits denote (07302 is   *)
(*     7302); on five-digit strings localeCompare orders as the numbers do;*)
(*   - a nullable value (number | null) is the sequence <<>> (null) or     *)
(*     <<v>> (the value v);                                                *)
(*   - scenario weights are held in percent (25 stands for 0.25), so that  *)
(*     weight * sub_score / 100 is the contribution of a dimension.        *)
(***************************************************************************)
EXTENDS Integers, Sequences, FiniteSets, TLC

VARIABLES
    deal,           \* the DealMetrics record a score is computed for
    scoreResult,    \* last result of getScenarioScore(deal), or Null
    engineResult,   \* last result of the engine's score(deal, scenario), or Null
    zip_metrics,    \* batch job: the current metrics record of every known ZIP
    deal_scores,    \* batch job: the rows of the deal_scores table
    next_id,        \* batch job: next value of the table's SERIAL id
    now,            \* batch job: number of runs so far, the scored_at stamp
    deals,          \* deals page: the DealMetrics list of the last response
    loading,        \* deals page: loading flag
    error,          \* deals page: error message, or Null
    filters,        \* deals page: state / minRentIndex / minPermits / hideNA
    sortConfig,     \* deals page: sort field and direction
    dealsMounted,   \* deals page: mounted flag
    dealsPc,        \* deals page: position of the mount effect and of fetchDeals
    localStorage,   \* browser: the keys present in localStorage
    location,       \* browser: window.location.href
    inputs,         \* underwrite page: UnderwritingInputs
    outputs,        \* underwrite page: UnderwritingOutputs, or Null
    uwMounted,      \* underwrite page: mounted flag
    uwPc,           \* underwrite page: "idle", or "effect" when an effect is queued
    edits,          \* underwrite page: number of input edits so far
    routerPath,     \* router: the route on screen, a page or "/login"
    storedToken,    \* browser: whether localStorage holds an auth_token
    authMounted,    \* ProtectedRoute: mounted flag
    authLoading,    \* ProtectedRoute: loading flag
    isAuthenticated,\* ProtectedRoute: isAuthenticated flag
    authPc,         \* ProtectedRoute: position of its two effects
    tokenFound,     \* what the access check of this visit found, or Null
    visits,         \* number of pages opened so far
    formData,       \* UnderwriteForm: UnderwriteData
    results,        \* UnderwriteForm: CalculationResults, or Null
    sortBy,         \* refetching deals page: the sort_by selected
    stateFilter,    \* refetching deals page: the state selected, "" for all
    inFlight,       \* refetching deals page: the requests awaiting a response
    selectedCounty, \* news page: the county selected, or Null
    daysFilter,     \* news page: the days filter
    articles,       \* news page: the article list of the last response taken
    newsInFlight,   \* news page: the county requests awaiting a response
    permits,        \* permits ingest: the list handed to processPermits
    processed       \* permits ingest: what processPermits returned, or Null

scoreVars == <<deal, scoreResult, engineResult>>

batchVars == <<zip_metrics, deal_scores, next_id, now>>

dealsVars ==
    <<deals, loading, error, filters, sortConfig, dealsMounted, dealsPc,
      localStorage, location>>

uwVars == <<inputs, outputs, uwMounted, uwPc, edits>>

routeVars ==
    <<routerPath, storedToken, authMounted, authLoading, isAuthenticated, authPc,
      tokenFound, visits>>

\* The dashboard's calculator, the refetching deals page, the news page and
\* the permits ingest.
otherVars ==
    <<formData, results, sortBy, stateFilter, inFlight, selectedCounty, daysFilter,
      articles, newsInFlight, permits, processed>>

vars == <<scoreVars, batchVars, dealsVars, uwVars, routeVars, otherVars>>

\* The variables of the other parts, which a step of one part leaves alone.
notScore == <<batchVars, dealsVars, uwVars, routeVars, otherVars>>

notBatch == <<scoreVars, dealsVars, uwVars, routeVars, otherVars>>

notDeals == <<scoreVars, batchVars, uwVars, routeVars, otherVars>>

notUw == <<scoreVars, batchVars, dealsVars, routeVars, otherVars>>

notRoute == <<scoreVars, batchVars, dealsVars, uwVars, otherVars>>

notForm ==
    <<scoreVars, batchVars, dealsVars, uwVars, routeVars, sortBy, stateFilter, inFlight,
      selectedCounty, daysFilter, articles, newsInFlight, permits, processed>>

\* The refetching deals page keeps its list, flags and session in dealsVars.
notList ==
    <<scoreVars, batchVars, uwVars, routeVars, formData, results, selectedCounty,
      daysFilter, articles, newsInFlight, permits, processed>>

\* The news page reads the session of dealsVars.
notNews ==
    <<scoreVars, batchVars, dealsVars, uwVars, routeVars, formData, results, sortBy,
      stateFilter, inFlight, permits, processed>>

notPermits ==
    <<scoreVars, batchVars, dealsVars, uwVars, routeVars, formData, results, sortBy,
      stateFilter, inFlight, selectedCounty, daysFilter, articles, newsInFlight>>

Null == <<>>

Some(v) == <<v>>

IsNull(x) == x = <<>>

Val(x) == x[1]

(***************************************************************************)
(* Input domains of the scoring functions: values on and around every      *)
(* threshold the code and the documented ladders compare against.          *)
(***************************************************************************)
PermitCounts == {0, 5, 10, 15, 20, 25, 30, 40, 50, 60, 80}

RentGrowths == {Null, Some(-1), Some(0), Some(2), Some(4), Some(6), Some(8), Some(15)}

ValueGrowths == {Null, Some(3), Some(6)}

NewsCounts == {Null, Some(5), Some(10)}

FloodFlags == {Null, Some(FALSE), Some(TRUE)}

Incomes == {Null, Some(60000)}

DealMetrics ==
    [permit_count : PermitCounts, rent_growth : RentGrowths,
     value_growth : ValueGrowths, news_count : NewsCounts,
     flood_flag : FloodFlags, income : Incomes]

\* JavaScript truthiness of a nullable number: null and 0 are falsy.
Truthy(x) == ~IsNull(x) /\ Val(x) # 0

(***************************************************************************)
(* getScenarioScore (DealsPageContent): additive bonuses, a flat flood     *)
(* penalty, then the scenario label and the colour derived from the score. *)
(***************************************************************************)
\* PermitBonus with the bonuses of the two upper bands exchanged.
PermitBonus_Swapped(d) ==
    IF d.permit_count >= 20 THEN 20
    ELSE IF d.permit_count >= 10 THEN 30
    ELSE IF d.permit_count >= 5 THEN 10
    ELSE 0

PermitBonus(d) ==
    IF d.permit_count >= 20 THEN 30
    ELSE IF d.permit_count >= 10 THEN 20
    ELSE IF d.permit_count >= 5 THEN 10
    ELSE 0

RentGrowthBonus(d) ==
    IF Truthy(d.rent_growth) /\ Val(d.rent_growth) > 5 THEN 25
    ELSE IF Truthy(d.rent_growth) /\ Val(d.rent_growth) > 0 THEN 15
    ELSE 0

ValueGrowthBonus(d) ==
    IF Truthy(d.value_growth) /\ Val(d.value_growth) > 5 THEN 20
    ELSE IF Truthy(d.value_growth) /\ Val(d.value_growth) > 0 THEN 10
    ELSE 0

NewsBonus(d) ==
    IF Truthy(d.news_count) /\ Val(d.news_count) >= 10 THEN 15
    ELSE IF Truthy(d.news_count) /\ Val(d.news_count) >= 5 THEN 10
    ELSE 0

\* FloodPenalty with an unknown flood_flag treated as flagged.
FloodPenalty_UnknownFlagged(d) ==
    IF IsNull(d.flood_flag) \/ Val(d.flood_flag) THEN 20 ELSE 0

FloodPenalty(d) ==
    IF ~IsNull(d.flood_flag) /\ Val(d.flood_flag) THEN 20 ELSE 0

ScenarioOf(score) ==
    IF score >= 70 THEN "S1" ELSE IF score >= 50 THEN "S2" ELSE "S3"

ColorOf(scenario) ==
    IF scenario = "S1" THEN "bg-green-100 text-green-800"
    ELSE IF scenario = "S2" THEN "bg-yellow-100 text-yellow-800"
    ELSE "bg-red-100 text-red-800"

getScenarioScore(d) ==
    LET score == PermitBonus(d) + RentGrowthBonus(d) + ValueGrowthBonus(d)
                 + NewsBonus(d) - FloodPenalty(d)
        scenario == ScenarioOf(score)
    IN  [scenario |-> scenario, score |-> score, color |-> ColorOf(scenario)]

(***************************************************************************)
(* DealScoringEngine (backend/scoring/engine.py).  The weights table and   *)
(* the permit_count and rent_growth ladders are the ones the repository    *)
(* documents; the combination rule (weighted sum, flood penalty, clamp) is *)
(* the one the specification gives.                                        *)
(***************************************************************************)
ScenarioNames == {"S1", "S2", "S3"}

Dimensions ==
    {"permit_count", "rent_growth", "value_growth", "news_count", "flood_flag", "income"}

\* scenario_weights with the S2 income weight entered as 0.10 instead of 0.05.
scenario_weights_IncomeTypo ==
    [S1 |-> [permit_count |-> 25, rent_growth |-> 20, value_growth |-> 20,
             news_count |-> 15, flood_flag |-> 10, income |-> 10],
     S2 |-> [permit_count |-> 20, rent_growth |-> 25, value_growth |-> 25,
             news_count |-> 20, flood_flag |-> 5, income |-> 10],
     S3 |-> [permit_count |-> 15, rent_growth |-> 30, value_growth |-> 30,
             news_count |-> 25, flood_flag |-> 0, income |-> 0]]

\* scenario_weights with the S3 row carrying the S2 flood and income weights.
scenario_weights_S3Flood ==
    [S1 |-> [permit_count |-> 25, rent_growth |-> 20, value_growth |-> 20,
             news_count |-> 15, flood_flag |-> 10, income |-> 10],
     S2 |-> [permit_count |-> 20, rent_growth |-> 25, value_growth |-> 25,
             news_count |-> 20, flood_flag |-> 5, income |-> 5],
     S3 |-> [permit_count |-> 15, rent_growth |-> 30, value_growth |-> 30,
             news_count |-> 25, flood_flag |-> 5, income |-> 5]]

scenario_weights ==
    [S1 |-> [permit_count |-> 25, rent_growth |-> 20, value_growth |-> 20,
             news_count |-> 15, flood_flag |-> 10, income |-> 10],
     S2 |-> [permit_count |-> 20, rent_growth |-> 25, value_growth |-> 25,
             news_count |-> 20, flood_flag |-> 5, income |-> 5],
     S3 |-> [permit_count |-> 15, rent_growth |-> 30, value_growth |-> 30,
             news_count |-> 25, flood_flag |-> 0, income |-> 0]]

\* PermitLadder with the S1 and S3 rows exchanged.
PermitLadder_RowsExchanged ==
    [S1 |-> << <<80, 100>>, <<50, 80>>, <<30, 60>>, <<15, 40>> >>,
     S2 |-> << <<60, 100>>, <<40, 80>>, <<25, 60>>, <<15, 40>> >>,
     S3 |-> << <<50, 100>>, <<30, 80>>, <<20, 60>>, <<10, 40>> >>]

\* Each ladder is a sequence of <<lower_bound, sub_score>>, highest bound first.
PermitLadder ==
    [S1 |-> << <<50, 100>>, <<30, 80>>, <<20, 60>>, <<10, 40>> >>,
     S2 |-> << <<60, 100>>, <<40, 80>>, <<25, 60>>, <<15, 40>> >>,
     S3 |-> << <<80, 100>>, <<50, 80>>, <<30, 60>>, <<15, 40>> >>]

\* RentGrowthLadder with the sub-scores of the two middle S2 bands exchanged.
RentGrowthLadder_S2Swapped ==
    [S1 |-> << <<8, 100>>, <<6, 80>>, <<4, 60>>, <<2, 40>> >>,
     S2 |-> << <<10, 100>>, <<7, 60>>, <<5, 80>>, <<3, 40>> >>,
     S3 |-> << <<15, 100>>, <<10, 80>>, <<7, 60>>, <<4, 40>> >>]

RentGrowthLadder ==
    [S1 |-> << <<8, 100>>, <<6, 80>>, <<4, 60>>, <<2, 40>> >>,
     S2 |-> << <<10, 100>>, <<7, 80>>, <<5, 60>>, <<3, 40>> >>,
     S3 |-> << <<15, 100>>, <<10, 80>>, <<7, 60>>, <<4, 40>> >>]

\* The sub-score of the first entry whose lower bound v meets, 0 if none.
LadderSubScore(ladder, v) ==
    LET hits == {i \in 1..Len(ladder) : v >= ladder[i][1]}
    IN  IF hits = {} THEN 0
        ELSE ladder[CHOOSE i \in hits : \A j \in hits : i <= j][2]

\* The dimensions whose ladders the sources do not list; their sub-score for
\* a known metric is an input of the call (every ladder value is considered).
LadderProfiles ==
    {[value_growth |-> 0, news_count |-> 0, income |-> 0],
     [value_growth |-> 40, news_count |-> 60, income |-> 80],
     [value_growth |-> 100, news_count |-> 100, income |-> 100]}

SubScore(d, lo, s, dim) ==
    IF dim = "permit_count" THEN LadderSubScore(PermitLadder[s], d.permit_count)
    ELSE IF IsNull(d[dim]) THEN 0
    ELSE IF dim = "rent_growth" THEN LadderSubScore(RentGrowthLadder[s], Val(d.rent_growth))
    ELSE lo[dim]

Contribution(d, lo, s, dim) ==
    IF dim = "flood_flag"
    THEN IF ~IsNull(d.flood_flag) /\ Val(d.flood_flag)
         THEN 0 - ((scenario_weights[s][dim] * 100) \div 100)
         ELSE 0
    ELSE (scenario_weights[s][dim] * SubScore(d, lo, s, dim)) \div 100

RECURSIVE SumOver(_, _)
SumOver(f, S) ==
    IF S = {} THEN 0
    ELSE LET x == CHOOSE y \in S : TRUE IN f[x] + SumOver(f, S \ {x})

Clamp(x) == IF x < 0 THEN 0 ELSE IF x > 100 THEN 100 ELSE x

\* score with an unknown scenario name falling back to the S1 weights.
score_FallbackS1(d, lo, s) ==
    LET t == IF s \in ScenarioNames THEN s ELSE "S1"
        breakdown == [dim \in Dimensions |->
                         [weight |-> scenario_weights[t][dim],
                          contribution |-> Contribution(d, lo, t, dim)]]
        total == SumOver([dim \in Dimensions |-> breakdown[dim].contribution],
                         Dimensions)
    IN  [error |-> "none", scenario |-> s, subs |-> lo,
         score |-> Clamp(total), total |-> total, breakdown |-> breakdown]

score(d, lo, s) ==
    IF s \notin ScenarioNames
    THEN [error |-> "InvalidScenario", scenario |-> s, subs |-> lo,
          score |-> Null, total |-> Null, breakdown |-> Null]
    ELSE LET breakdown == [dim \in Dimensions |->
                              [weight |-> scenario_weights[s][dim],
                               contribution |-> Contribution(d, lo, s, dim)]]
             total == SumOver([dim \in Dimensions |-> breakdown[dim].contribution],
                              Dimensions)
         IN  [error |-> "none", scenario |-> s, subs |-> lo,
              score |-> Clamp(total), total |-> total, breakdown |-> breakdown]

(***************************************************************************)
(* Batch scoring job and the deal_scores table.  The job is not part of    *)
(* the sources; the table's columns are the documented ones, the job is    *)
(* the one the specification describes: every run scores each known ZIP    *)
(* under S1, S2 and S3 and persists one row per pair, superseding the row  *)
(* of an earlier run.                                                      *)
(***************************************************************************)
MaxRuns == 3

KnownZips == {7302, 19123}

BatchMetrics ==
    {[permit_count |-> 0, rent_growth |-> Null, value_growth |-> Null,
      news_count |-> Null, flood_flag |-> Null, income |-> Null],
     [permit_count |-> 30, rent_growth |-> Some(6), value_growth |-> Some(3),
      news_count |-> Some(5), flood_flag |-> Some(TRUE), income |-> Some(60000)],
     [permit_count |-> 80, rent_growth |-> Some(15), value_growth |-> Some(6),
      news_count |-> Some(10), flood_flag |-> Some(FALSE), income |-> Some(60000)]}

\* The ZIP x scenario pairs in the order a run visits them.
BatchPairs ==
    << <<7302, "S1">>, <<7302, "S2">>, <<7302, "S3">>,
       <<19123, "S1">>, <<19123, "S2">>, <<19123, "S3">> >>

RowsOf(rows, z, s) == {r \in rows : r.zip_code = z /\ r.scenario = s}

\* Persist with the superseded row left in the table.
Persist_KeepOld(rows, row) == rows \cup {row}

\* Persist one DealScore: the newest computation supersedes the pair's row.
Persist(rows, row) == (rows \ RowsOf(rows, row.zip_code, row.scenario)) \cup {row}

DealScoreRow(i, lo, stamp) ==
    LET z == BatchPairs[i][1]
        s == BatchPairs[i][2]
    IN  [id |-> next_id + i - 1, zip_code |-> z, scenario |-> s,
         score |-> score(zip_metrics[z], lo, s).score,
         metrics |-> zip_metrics[z], scored_at |-> stamp]

RECURSIVE RunFrom(_, _, _, _)
RunFrom(rows, i, lo, stamp) ==
    IF i > Len(BatchPairs) THEN rows
    ELSE RunFrom(Persist(rows, DealScoreRow(i, lo, stamp)), i + 1, lo, stamp)

InitBatchVars ==
    /\ zip_metrics = [z \in KnownZips |->
                        [permit_count |-> 0, rent_growth |-> Null, value_growth |-> Null,
                         news_count |-> Null, flood_flag |-> Null, income |-> Null]]
    /\ deal_scores = {}
    /\ next_id = 1
    /\ now = 0

\* The ingestion collaborators refresh the metrics of one ZIP.
RefreshMetrics ==
    /\ \E z \in KnownZips : \E m \in BatchMetrics :
          /\ m # zip_metrics[z]
          /\ zip_metrics' = [zip_metrics EXCEPT ![z] = m]
    /\ UNCHANGED <<deal_scores, next_id, now, notBatch>>

\* One run of the batch job over every known ZIP and the three scenarios.
BatchScoreRun ==
    /\ now < MaxRuns
    /\ \E lo \in LadderProfiles :
          deal_scores' = RunFrom(deal_scores, 1, lo, now + 1)
    /\ next_id' = next_id + Len(BatchPairs)
    /\ now' = now + 1
    /\ UNCHANGED <<zip_metrics, notBatch>>

(***************************************************************************)
(* DealsPageContent: the list of deals, its filters and its sort order.    *)
(***************************************************************************)
MaxDeals == 3

\* The records the deals endpoint can return.
DealPool ==
    {[zip_code |-> 7102, city |-> "Newark", state |-> "NJ",
      rent_index |-> Some(2000), home_value_index |-> Some(350000),
      permit_count |-> 10, income |-> Some(40000), population |-> Some(50000),
      rent_growth |-> Some(6), value_growth |-> Some(3),
      flood_flag |-> Some(FALSE), news_count |-> Some(5)],
     [zip_code |-> 7302, city |-> "Jersey City", state |-> "NJ",
      rent_index |-> Null, home_value_index |-> Null,
      permit_count |-> 10, income |-> Null, population |-> Null,
      rent_growth |-> Null, value_growth |-> Null,
      flood_flag |-> Null, news_count |-> Null],
     [zip_code |-> 8002, city |-> "Cherry Hill", state |-> "NJ",
      rent_index |-> Some(2000), home_value_index |-> Some(300000),
      permit_count |-> 0, income |-> Some(60000), population |-> Some(70000),
      rent_growth |-> Some(0), value_growth |-> Some(6),
      flood_flag |-> Some(FALSE), news_count |-> Some(10)],
     [zip_code |-> 19123, city |-> "Philadelphia", state |-> "PA",
      rent_index |-> Some(1500), home_value_index |-> Some(250000),
      permit_count |-> 25, income |-> Some(60000), population |-> Some(30000),
      rent_growth |-> Some(6), value_growth |-> Some(-1),
      flood_flag |-> Some(TRUE), news_count |-> Some(10)]}

\* A response body: up to MaxDeals distinct records, in the server's order.
DealLists ==
    {ds \in UNION {[1..n -> DealPool] : n \in 0..MaxDeals} :
        \A i, j \in DOMAIN ds : i # j => ds[i].zip_code # ds[j].zip_code}

defaultFilters ==
    [state |-> "", minRentIndex |-> Null, minPermits |-> Null, hideNA |-> FALSE]

defaultSortConfig == [field |-> "permit_count", direction |-> "desc"]

\* a[sortConfig.field] as a nullable value.
FieldValue(d, field) ==
    IF field \in {"zip_code", "permit_count"} THEN Some(d[field]) ELSE d[field]

\* The comparator handed to Array.prototype.sort: negative, zero or positive.
Compare(a, b, cfg) ==
    LET aValue == FieldValue(a, cfg.field)
        bValue == FieldValue(b, cfg.field)
    IN  IF IsNull(aValue) /\ IsNull(bValue) THEN 0
        ELSE IF IsNull(aValue) THEN 1
        ELSE IF IsNull(bValue) THEN -1
        ELSE IF cfg.direction = "asc" THEN Val(aValue) - Val(bValue)
        ELSE Val(bValue) - Val(aValue)

\* Array.prototype.sort is stable: x goes behind every element that does not
\* compare greater than it.
InsertStable(sorted, x, cfg) ==
    LET k == Cardinality({i \in DOMAIN sorted : Compare(sorted[i], x, cfg) <= 0})
    IN  SubSeq(sorted, 1, k) \o <<x>> \o SubSeq(sorted, k + 1, Len(sorted))

RECURSIVE SortFrom(_, _, _, _)
SortFrom(sorted, ds, i, cfg) ==
    IF i > Len(ds) THEN sorted
    ELSE SortFrom(InsertStable(sorted, ds[i], cfg), ds, i + 1, cfg)

StableSort(ds, cfg) == SortFrom(<<>>, ds, 1, cfg)

PassesState(d, f) == f.state = "" \/ d.state = f.state

PassesMinRentIndex(d, f) ==
    IsNull(f.minRentIndex)
      \/ (Truthy(d.rent_index) /\ Val(d.rent_index) >= Val(f.minRentIndex))

PassesMinPermits(d, f) ==
    IsNull(f.minPermits) \/ d.permit_count >= Val(f.minPermits)

PassesHideNA(d, f) ==
    ~f.hideNA
      \/ (~IsNull(d.rent_index) /\ ~IsNull(d.home_value_index)
            /\ ~IsNull(d.income) /\ ~IsNull(d.population))

PassesFilters(d, f) ==
    /\ PassesState(d, f)
    /\ PassesMinRentIndex(d, f)
    /\ PassesMinPermits(d, f)
    /\ PassesHideNA(d, f)

RECURSIVE FilterSeq(_, _)
FilterSeq(ds, f) ==
    IF ds = <<>> THEN <<>>
    ELSE IF PassesFilters(Head(ds), f) THEN <<Head(ds)>> \o FilterSeq(Tail(ds), f)
    ELSE FilterSeq(Tail(ds), f)

\* The copy of the list sorted with no filter applied.
filteredAndSortedDeals_Unfiltered(ds, f, cfg) == StableSort(ds, cfg)
\* filteredAndSortedDeals: a copy of the list, filtered, then sorted.
filteredAndSortedDeals(ds, f, cfg) == StableSort(FilterSeq(ds, f), cfg)

\* The table and its controls are rendered once mounted, loaded and free of error.
TableShown ==
    /\ dealsMounted
    /\ ~loading
    /\ error = Null
    /\ dealsPc = "idle"

processedDeals == filteredAndSortedDeals(deals, filters, sortConfig)

\* First effect: setMounted(true); the second effect is then queued.
MountDeals ==
    /\ dealsPc = "unmounted"
    /\ dealsMounted' = TRUE
    /\ dealsPc' = "effect"
    /\ UNCHANGED <<deals, loading, error, filters, sortConfig, localStorage, location, notDeals>>

\* fetchDeals up to its first await: by the mount effect, "Try Again" or "Refresh".
FetchDealsStart ==
    /\ \/ dealsPc = "effect"
       \/ dealsPc = "idle" /\ dealsMounted /\ ~loading
    /\ IF "auth_token" \in localStorage
       THEN /\ loading' = TRUE
            /\ dealsPc' = "inflight"
            /\ UNCHANGED error
       ELSE /\ loading' = FALSE
            /\ error' = Some("Authentication required")
            /\ dealsPc' = "idle"
    /\ UNCHANGED <<deals, filters, sortConfig, dealsMounted, localStorage, location, notDeals>>

\* The 401 answer treated like any other failure: thrown into the catch block.
FetchDealsUnauthorized_Thrown ==
    /\ dealsPc = "inflight"
    /\ localStorage' = localStorage \ {"auth_token", "user_email"}
    /\ location' = "/login"
    /\ deals' = <<>>
    /\ error' = Some("HTTP error! status: 401")
    /\ loading' = FALSE
    /\ dealsPc' = "redirected"
    /\ UNCHANGED <<filters, sortConfig, dealsMounted, notDeals>>
\* The response is 401: the session is dropped and the browser sent to /login.
FetchDealsUnauthorized ==
    /\ dealsPc = "inflight"
    /\ localStorage' = localStorage \ {"auth_token", "user_email"}
    /\ location' = "/login"
    /\ loading' = FALSE
    /\ dealsPc' = "redirected"
    /\ UNCHANGED <<deals, error, filters, sortConfig, dealsMounted, notDeals>>

\* The response is not OK, fetch rejects, or the body does not parse.
FetchDealsFail ==
    /\ dealsPc = "inflight"
    /\ \E msg \in {"HTTP error! status: 500", "Failed to fetch"} : error' = Some(msg)
    /\ loading' = FALSE
    /\ dealsPc' = "idle"
    /\ UNCHANGED <<deals, filters, sortConfig, dealsMounted, localStorage, location, notDeals>>

\* The response is OK: setDeals(data.deals), setError(null).
FetchDealsOk ==
    /\ dealsPc = "inflight"
    /\ \E ds \in DealLists : deals' = ds
    /\ error' = Null
    /\ loading' = FALSE
    /\ dealsPc' = "idle"
    /\ UNCHANGED <<filters, sortConfig, dealsMounted, localStorage, location, notDeals>>

\* handleSort, called by the header of a sortable column.
handleSort ==
    /\ TableShown
    /\ \E field \in {"zip_code", "permit_count", "rent_index", "rent_growth",
                     "home_value_index", "value_growth"} :
          sortConfig' =
              [field |-> field,
               direction |-> IF sortConfig.field = field /\ sortConfig.direction = "asc"
                             THEN "desc" ELSE "asc"]
    /\ UNCHANGED <<deals, loading, error, filters, dealsMounted, dealsPc,
                   localStorage, location, notDeals>>

\* The onChange handlers of the four filter controls, with the values the
\* controls are set to ('' is Null).
SetFilters ==
    /\ TableShown
    /\ \/ \E v \in {"", "NJ", "PA"} : filters' = [filters EXCEPT !.state = v]
       \/ \E v \in {Null, Some(0), Some(1800)} :
             filters' = [filters EXCEPT !.minRentIndex = v]
       \/ \E v \in {Null, Some(10)} : filters' = [filters EXCEPT !.minPermits = v]
       \/ \E v \in BOOLEAN : filters' = [filters EXCEPT !.hideNA = v]
    /\ UNCHANGED <<deals, loading, error, sortConfig, dealsMounted, dealsPc,
                   localStorage, location, notDeals>>

(***************************************************************************)
(* JavaScript numbers.  A number is NaN, +Infinity, -Infinity or a finite  *)
(* value held as the reduced fraction n/d; the arithmetic follows IEEE 754 *)
(* on the special values and is exact on the finite ones (the rounding of  *)
(* doubles is not modelled, and a zero divisor is +0).                     *)
(***************************************************************************)
NaN == [k |-> "nan", n |-> 0, d |-> 1]

PosInf == [k |-> "pinf", n |-> 0, d |-> 1]

NegInf == [k |-> "ninf", n |-> 0, d |-> 1]

Abs(x) == IF x < 0 THEN 0 - x ELSE x

RECURSIVE GCD(_, _)
GCD(a, b) == IF b = 0 THEN a ELSE GCD(b, a % b)

Norm(n, d) ==
    LET g == GCD(Abs(n), Abs(d))
        sg == IF d < 0 THEN -1 ELSE 1
    IN  [k |-> "fin", n |-> (sg * n) \div g, d |-> (sg * d) \div g]

N(i) == [k |-> "fin", n |-> i, d |-> 1]

IsFinite(x) == x.k = "fin"

IsNaN(x) == x.k = "nan"

IsZero(x) == x.k = "fin" /\ x.n = 0

\* -1, 0 or 1; NaN has no sign and is never asked for one.
Sign(x) ==
    IF x.k = "pinf" THEN 1
    ELSE IF x.k = "ninf" THEN -1
    ELSE IF x.n > 0 THEN 1 ELSE IF x.n < 0 THEN -1 ELSE 0

InfOf(sg) == IF sg > 0 THEN PosInf ELSE NegInf

NNeg(x) ==
    IF x.k = "nan" THEN NaN
    ELSE IF x.k = "pinf" THEN NegInf
    ELSE IF x.k = "ninf" THEN PosInf
    ELSE [k |-> "fin", n |-> 0 - x.n, d |-> x.d]

NAdd(x, y) ==
    IF IsNaN(x) \/ IsNaN(y) THEN NaN
    ELSE IF ~IsFinite(x) THEN (IF ~IsFinite(y) /\ y.k # x.k THEN NaN ELSE x)
    ELSE IF ~IsFinite(y) THEN y
    ELSE LET l == (x.d \div GCD(x.d, y.d)) * y.d
         IN  Norm(x.n * (l \div x.d) + y.n * (l \div y.d), l)

NSub(x, y) == NAdd(x, NNeg(y))

NMul(x, y) ==
    IF IsNaN(x) \/ IsNaN(y) THEN NaN
    ELSE IF ~IsFinite(x) \/ ~IsFinite(y)
    THEN (IF IsZero(x) \/ IsZero(y) THEN NaN ELSE InfOf(Sign(x) * Sign(y)))
    ELSE LET g1 == GCD(Abs(x.n), y.d)
             g2 == GCD(Abs(y.n), x.d)
         IN  Norm((x.n \div g1) * (y.n \div g2), (x.d \div g2) * (y.d \div g1))

NDiv(x, y) ==
    IF IsNaN(x) \/ IsNaN(y) THEN NaN
    ELSE IF ~IsFinite(x) THEN (IF ~IsFinite(y) THEN NaN
                               ELSE InfOf(Sign(x) * (IF Sign(y) < 0 THEN -1 ELSE 1)))
    ELSE IF ~IsFinite(y) THEN N(0)
    ELSE IF IsZero(y) THEN (IF IsZero(x) THEN NaN ELSE InfOf(Sign(x)))
    ELSE NMul(x, Norm(y.d, y.n))

\* x >= y in JavaScript: false as soon as either side is NaN.
NGe(x, y) ==
    IF IsNaN(x) \/ IsNaN(y) THEN FALSE
    ELSE IF x.k = "pinf" \/ y.k = "ninf" THEN TRUE
    ELSE IF x.k = "ninf" \/ y.k = "pinf" THEN FALSE
    ELSE x.n * y.d >= y.n * x.d

\* One doubling step of the quotient and remainder h of a * (b \div 2) by c.
MulDivStep(h, a, b, c) ==
    <<2 * h[1] + (IF b % 2 = 1 THEN a \div c ELSE 0)
        + (2 * h[2] + (IF b % 2 = 1 THEN a % c ELSE 0)) \div c,
      (2 * h[2] + (IF b % 2 = 1 THEN a % c ELSE 0)) % c>>

\* <<quotient, remainder>> of a * b by c, for a, b >= 0 and c > 0, computed
\* without forming the product a * b.
RECURSIVE MulDivQR(_, _, _)
MulDivQR(a, b, c) ==
    IF b = 0 THEN <<0, 0>>
    ELSE CHOOSE qr \in {MulDivStep(h, a, b, c) : h \in {MulDivQR(a, b \div 2, c)}} : TRUE

\* a * b / c rounded to the nearest integer.
MulDivRound(a, b, c) ==
    CHOOSE q \in {MulDivQR(x[1], x[2], x[3])[1]
                     + (IF 2 * MulDivQR(x[1], x[2], x[3])[2] >= x[3] THEN 1 ELSE 0) :
                   x \in {<<a, b, c>>}} : TRUE

\* Math.pow is evaluated in fixed point, in millionths.
PowScale == 1000000

\* (b6 / PowScale)^n * PowScale by repeated squaring, rounded at every
\* multiplication, for b6 = base * PowScale.
RECURSIVE Pow6(_, _)
Pow6(b6, n) ==
    IF n = 0 THEN PowScale
    ELSE CHOOSE p \in {IF n % 2 = 1 THEN MulDivRound(sq, b6, PowScale) ELSE sq :
                         sq \in {MulDivRound(h, h, PowScale) :
                                    h \in {Pow6(b6, n \div 2)}}} : TRUE

\* Arguments outside the cases below are not evaluated by any input of the model.
Unsupported == CHOOSE x \in {} : TRUE

\* Math.pow(base, exponent).
MathPow(base, exponent) ==
    IF IsZero(exponent) THEN N(1)
    ELSE IF base = N(1) /\ IsFinite(exponent) THEN N(1)
    ELSE IF IsFinite(base) /\ base.n > 0 /\ IsFinite(exponent)
            /\ exponent.d = 1 /\ exponent.n > 0
    THEN Norm(Pow6(MulDivRound(base.n, PowScale, base.d), exponent.n), PowScale)
    ELSE Unsupported

\* loanAmount * (monthlyRate * pow) / (pow - 1) for pow # 1, rounded to cents.
Amortized(loanAmount, monthlyRate, pow) ==
    LET lr == NMul(loanAmount, monthlyRate)
        interest4 == MulDivRound(Abs(lr.n), 10000, lr.d)
        payment4 == MulDivRound(interest4, pow.n, Abs(pow.n - pow.d))
        sg == Sign(lr) * (IF pow.n > pow.d THEN 1 ELSE -1)
    IN  Norm(sg * ((payment4 + 50) \div 100), 100)

(***************************************************************************)
(* UnderwritePageContent: the calculator form.                             *)
(***************************************************************************)
MaxEdits == 3

Fields ==
    {"purchasePrice", "rehabCost", "afterRepairValue", "monthlyRent",
     "propertyTaxes", "insurance", "propertyManagement", "vacancyRate",
     "loanAmount", "interestRate", "loanTerm", "closingCosts"}

defaultInputs ==
    [purchasePrice |-> N(300000), rehabCost |-> N(50000),
     afterRepairValue |-> N(400000), monthlyRent |-> N(2500),
     propertyTaxes |-> N(6000), insurance |-> N(1200),
     propertyManagement |-> N(250), vacancyRate |-> N(5),
     loanAmount |-> N(240000), interestRate |-> Norm(15, 2),
     loanTerm |-> N(30), closingCosts |-> N(9000)]

\* The strings typed into every field, and the further ones typed into a field.
CommonEdits == {"", "abc", "0"}

FieldEdits ==
    [purchasePrice |-> {"250000", "-5"}, rehabCost |-> {}, afterRepairValue |-> {"450000"},
     monthlyRent |-> {"1000"}, propertyTaxes |-> {}, insurance |-> {},
     propertyManagement |-> {"1775"}, vacancyRate |-> {"10", "150"},
     loanAmount |-> {"100000"}, interestRate |-> {"6"}, loanTerm |-> {"15"},
     closingCosts |-> {}]

\* parseFloat on the strings above.
parseFloat(str) ==
    CASE str = "" -> NaN
      [] str = "abc" -> NaN
      [] str = "flip" -> NaN
      [] str = "0" -> N(0)
      [] str = "-5" -> N(0 - 5)
      [] str = "6" -> N(6)
      [] str = "10" -> N(10)
      [] str = "15" -> N(15)
      [] str = "100" -> N(100)
      [] str = "150" -> N(150)
      [] str = "1000" -> N(1000)
      [] str = "1775" -> N(1775)
      [] str = "100000" -> N(100000)
      [] str = "250000" -> N(250000)
      [] str = "450000" -> N(450000)

\* OrZero without the || 0 default: the parsed value is stored as it is.
OrZero_NoDefault(x) == x
\* x || 0: NaN and 0 are falsy.
OrZero(x) == IF IsNaN(x) \/ IsZero(x) THEN N(0) ELSE x

\* An interest-only payment: loanAmount * monthlyRate, no amortisation.
monthlyMortgage_InterestOnly(in) ==
    NMul(in.loanAmount, NDiv(NDiv(in.interestRate, N(100)), N(12)))
monthlyMortgage(in) ==
    LET monthlyRate == NDiv(NDiv(in.interestRate, N(100)), N(12))
        totalPayments == NMul(in.loanTerm, N(12))
        pow == MathPow(NAdd(N(1), monthlyRate), totalPayments)
        denominator == NSub(pow, N(1))
    IN  IF IsZero(denominator)
        THEN NDiv(NMul(in.loanAmount, NMul(monthlyRate, pow)), denominator)
        ELSE Amortized(in.loanAmount, monthlyRate, pow)

\* The operating part of monthlyExpenses: taxes, insurance, management, vacancy.
operatingExpenses(in) ==
    LET monthlyTaxes == NDiv(in.propertyTaxes, N(12))
        monthlyInsurance == NDiv(in.insurance, N(12))
        monthlyVacancy == NDiv(NMul(in.monthlyRent, in.vacancyRate), N(100))
    IN  NAdd(NAdd(NAdd(monthlyTaxes, monthlyInsurance), in.propertyManagement),
             monthlyVacancy)

\* dscr = annualNOI / (monthlyMortgage * 12), an unguarded division.
dscr(annualNOI, mortgage) == NDiv(annualNOI, NMul(mortgage, N(12)))

\* The record calculateUnderwriting hands to setOutputs.
calculateUnderwriting(in) ==
    LET mortgage == monthlyMortgage(in)
        monthlyTaxes == NDiv(in.propertyTaxes, N(12))
        monthlyInsurance == NDiv(in.insurance, N(12))
        monthlyVacancy == NDiv(NMul(in.monthlyRent, in.vacancyRate), N(100))
        monthlyExpenses ==
            NAdd(NAdd(NAdd(NAdd(mortgage, monthlyTaxes), monthlyInsurance),
                      in.propertyManagement), monthlyVacancy)
        monthlyNOI == NAdd(NSub(in.monthlyRent, monthlyExpenses), mortgage)
        annualNOI == NMul(monthlyNOI, N(12))
        totalInvestment == NAdd(NAdd(in.purchasePrice, in.rehabCost), in.closingCosts)
        capRate == NMul(NDiv(annualNOI, in.afterRepairValue), N(100))
        cashOnCash == NMul(NDiv(annualNOI, totalInvestment), N(100))
        flipMargin ==
            NMul(NDiv(NSub(in.afterRepairValue, totalInvestment), totalInvestment), N(100))
    IN  [totalInvestment |-> totalInvestment, monthlyExpenses |-> monthlyExpenses,
         monthlyNOI |-> monthlyNOI, annualNOI |-> annualNOI, capRate |-> capRate,
         cashOnCash |-> cashOnCash, dscr |-> dscr(annualNOI, mortgage),
         flipMargin |-> flipMargin, flipROI |-> flipMargin]

\* Risk Assessment panel: the class of the DSCR row and of the cap rate row.
DscrRiskClass(o) ==
    IF NGe(o.dscr, Norm(5, 4)) THEN "bg-green-50 text-green-800"
    ELSE IF NGe(o.dscr, N(1)) THEN "bg-yellow-50 text-yellow-800"
    ELSE "bg-red-50 text-red-800"

CapRateRiskClass(o) ==
    IF NGe(o.capRate, N(8)) THEN "bg-green-50 text-green-800"
    ELSE IF NGe(o.capRate, N(6)) THEN "bg-yellow-50 text-yellow-800"
    ELSE "bg-red-50 text-red-800"

\* The levels the panel shows for an output.
RiskAssessment(o) == {DscrRiskClass(o), CapRateRiskClass(o)}

\* First effect: setMounted(true); the second effect is then queued.
MountUnderwrite ==
    /\ uwPc = "unmounted"
    /\ uwMounted' = TRUE
    /\ uwPc' = "effect"
    /\ UNCHANGED <<inputs, outputs, edits, notUw>>

\* Second effect (dependencies mounted, inputs): calculateUnderwriting().
CalculateUnderwriting ==
    /\ uwPc = "effect"
    /\ uwMounted
    /\ outputs' = calculateUnderwriting(inputs)
    /\ uwPc' = "idle"
    /\ UNCHANGED <<inputs, uwMounted, edits, notUw>>

\* handleInputChange with the effect depending on [mounted] only: the edit
\* queues no recomputation.
handleInputChange_NoRecompute ==
    /\ uwPc = "idle"
    /\ edits < MaxEdits
    /\ \E field \in Fields : \E value \in CommonEdits \cup FieldEdits[field] :
          inputs' = [inputs EXCEPT ![field] = OrZero(parseFloat(value))]
    /\ edits' = edits + 1
    /\ UNCHANGED <<outputs, uwMounted, uwPc, notUw>>

\* The onChange handler of an input field; the form exists once mounted, and
\* the queued effect runs before the next event is handled.
handleInputChange ==
    /\ uwPc = "idle"
    /\ edits < MaxEdits
    /\ \E field \in Fields : \E value \in CommonEdits \cup FieldEdits[field] :
          inputs' = [inputs EXCEPT ![field] = OrZero(parseFloat(value))]
    /\ uwPc' = "effect"
    /\ edits' = edits + 1
    /\ UNCHANGED <<outputs, uwMounted, notUw>>

(***************************************************************************)
(* ProtectedRoute and the pages' default exports.  A page is opened, the   *)
(* wrapper's two effects run (setMounted, then the access check), and the  *)
(* token in localStorage may be stored or cleared at any moment (a login   *)
(* or logout in another tab, a 401 handler).                               *)
(***************************************************************************)
MaxVisits == 4

\* The dashboard pages.
Pages == {"/", "/deals", "/map", "/news", "/underwrite"}

\* The pages whose default export wraps its content in <ProtectedRoute>.
ProtectedPages == {"/deals", "/map", "/news", "/underwrite"}

\* The pages whose content fetches with the token and handles a 401.
FetchingPages == {"/deals", "/map", "/news"}

\* The page's own content is rendered: always for a page rendered bare, and
\* past the wrapper's spinner and its null for a wrapped one.
ContentShown ==
    /\ routerPath \in Pages
    /\ routerPath \in ProtectedPages => (authMounted /\ ~authLoading /\ isAuthenticated)

\* A page is opened (first load or navigation): its components mount afresh.
OpenPage ==
    /\ visits < MaxVisits
    /\ \E p \in Pages :
          /\ routerPath' = p
          /\ authPc' = IF p \in ProtectedPages THEN "unmounted" ELSE "none"
    /\ authMounted' = FALSE
    /\ authLoading' = TRUE
    /\ isAuthenticated' = FALSE
    /\ tokenFound' = Null
    /\ visits' = visits + 1
    /\ UNCHANGED <<storedToken, notRoute>>

\* First effect of ProtectedRoute: setMounted(true).
MountProtectedRoute ==
    /\ authPc = "unmounted"
    /\ routerPath \in ProtectedPages
    /\ authMounted' = TRUE
    /\ authPc' = "check"
    /\ UNCHANGED <<routerPath, storedToken, authLoading, isAuthenticated, tokenFound,
                   visits, notRoute>>

\* Second effect, once mounted: read the token, then setIsAuthenticated(true)
\* or router.push('/login'), and setLoading(false).
CheckAuthentication ==
    /\ authPc = "check"
    /\ authMounted
    /\ routerPath \in ProtectedPages
    /\ tokenFound' = Some(storedToken)
    /\ isAuthenticated' = (isAuthenticated \/ storedToken)
    /\ routerPath' = IF storedToken THEN routerPath ELSE "/login"
    /\ authLoading' = FALSE
    /\ authPc' = "done"
    /\ UNCHANGED <<storedToken, authMounted, visits, notRoute>>

\* The content's fetch got a 401: the token is removed and the window is
\* sent to /login.
Unauthorized401 ==
    /\ ContentShown
    /\ routerPath \in FetchingPages
    /\ storedToken' = FALSE
    /\ routerPath' = "/login"
    /\ UNCHANGED <<authMounted, authLoading, isAuthenticated, authPc, tokenFound,
                   visits, notRoute>>

\* The token is stored (a login) or removed (a logout, an expiry clean-up)
\* outside the page on screen.
StorageChange ==
    /\ storedToken' = ~storedToken
    /\ UNCHANGED <<routerPath, authMounted, authLoading, isAuthenticated, authPc,
                   tokenFound, visits, notRoute>>

(***************************************************************************)
(* UnderwriteForm: the calculator of the dashboard.  Its results are       *)
(* computed when "Calculate" is clicked, from the form data of that moment.*)
(***************************************************************************)
\* The useState initial value.  exitStrategy holds the string 'rental' as the
\* record [k |-> "rental"]; the number an edit stores into it is held like
\* every other number.
initialFormData ==
    [purchasePrice |-> N(300000), downPayment |-> N(20), monthlyRent |-> N(2500),
     monthlyExpenses |-> N(800), rehabCost |-> N(0), afterRepairValue |-> N(300000),
     holdingPeriod |-> N(12), exitStrategy |-> [k |-> "rental"]]

\* The fields of the form and the strings typed or selected in them.
FormEdits ==
    [purchasePrice |-> {"250000"}, downPayment |-> {"0", "100"}, monthlyRent |-> {"1000", "abc"},
     monthlyExpenses |-> {"1000"}, rehabCost |-> {"100000"},
     afterRepairValue |-> {"450000"}, holdingPeriod |-> {"6"}, exitStrategy |-> {"flip"}]

\* calculateResults: the record handed to setResults.
calculateResults(fd) ==
    LET downPaymentAmount == NDiv(NMul(fd.purchasePrice, fd.downPayment), N(100))
        loanAmount == NSub(fd.purchasePrice, downPaymentAmount)
        mortgage == NDiv(NMul(loanAmount, N(5)), N(1000))
        totalMonthlyExpenses == NAdd(fd.monthlyExpenses, mortgage)
        annualRent == NMul(fd.monthlyRent, N(12))
        annualExpenses == NMul(totalMonthlyExpenses, N(12))
        netOperatingIncome == NSub(annualRent, annualExpenses)
        capRate == NMul(NDiv(netOperatingIncome, fd.purchasePrice), N(100))
        totalInvestment == NAdd(downPaymentAmount, fd.rehabCost)
        flipSpread ==
            NMul(NDiv(NSub(NSub(fd.afterRepairValue, fd.purchasePrice), fd.rehabCost),
                      totalInvestment), N(100))
        annualCashFlow == NSub(netOperatingIncome, NMul(mortgage, N(12)))
        cashOnCash == NMul(NDiv(annualCashFlow, totalInvestment), N(100))
    IN  [capRate |-> capRate, dscr |-> NDiv(annualRent, annualExpenses),
         flipSpread |-> flipSpread, cashOnCash |-> cashOnCash,
         totalReturn |-> IF fd.exitStrategy.k = "flip" THEN flipSpread ELSE cashOnCash,
         monthlyCashFlow |-> NSub(fd.monthlyRent, totalMonthlyExpenses),
         annualCashFlow |-> annualCashFlow]

\* UnderwriteForm.handleInputChange: every field's onChange hands a string, the
\* select of the exit strategy included, and parseFloat(value) || 0 is stored.
FormInputChange ==
    /\ \E field \in DOMAIN FormEdits : \E value \in FormEdits[field] :
          formData' = [formData EXCEPT ![field] = OrZero(parseFloat(value))]
    /\ UNCHANGED <<results, notForm>>

\* The "Calculate" button: setResults(calculateResults()).
CalculateResults ==
    /\ results' = calculateResults(formData)
    /\ UNCHANGED <<formData, notForm>>

(***************************************************************************)
(* The refetching deals page (src/pages/deals.tsx).  A request is held as  *)
(* its query [sort_by, state] (limit is always 100), and data.deals of a   *)
(* response as the one-element list of the request it answers.             *)
(***************************************************************************)
\* The page returns null until mounted, the spinner while loading and the
\* error view while error is set: the two selects are rendered with loading on.
ControlsShown_WhileLoading ==
    /\ dealsMounted
    /\ error = Null
    /\ dealsPc = "idle"
\* The page returns null until mounted, the spinner while loading and the
\* error view while error is set: only then are the table and the two selects
\* rendered.
ControlsShown ==
    /\ dealsMounted
    /\ ~loading
    /\ error = Null
    /\ dealsPc = "idle"

\* First effect: setMounted(true); the second effect is then queued.
ListMount ==
    /\ dealsPc = "unmounted"
    /\ dealsMounted' = TRUE
    /\ dealsPc' = "effect"
    /\ UNCHANGED <<deals, loading, error, filters, sortConfig, localStorage, location,
                   sortBy, stateFilter, inFlight, notList>>

\* fetchDeals up to its await, called by the second effect (dependencies
\* mounted, sortBy, stateFilter) or by "Try Again" on the error view.
ListFetchStart ==
    /\ \/ dealsPc = "effect"
       \/ dealsPc = "idle" /\ dealsMounted /\ ~loading /\ error # Null
    /\ IF "auth_token" \in localStorage
       THEN /\ loading' = TRUE
            /\ inFlight' = inFlight \cup {[sort_by |-> sortBy, state |-> stateFilter]}
            /\ UNCHANGED error
       ELSE /\ loading' = FALSE
            /\ error' = Some("Authentication required")
            /\ UNCHANGED inFlight
    /\ dealsPc' = "idle"
    /\ UNCHANGED <<deals, filters, sortConfig, dealsMounted, localStorage, location,
                   sortBy, stateFilter, notList>>

\* onChange of the "Sort by" select: setSortBy; the effect is queued and runs
\* before the next event is handled.
SetSortBy ==
    /\ ControlsShown
    /\ \E v \in {"rent_growth", "permit_count", "rent_index", "value_growth"} \ {sortBy} :
          sortBy' = v
    /\ dealsPc' = "effect"
    /\ UNCHANGED <<deals, loading, error, filters, sortConfig, dealsMounted,
                   localStorage, location, stateFilter, inFlight, notList>>

\* onChange of the "State" select: setStateFilter.
SetStateFilter ==
    /\ ControlsShown
    /\ \E v \in {"", "NJ", "PA"} \ {stateFilter} : stateFilter' = v
    /\ dealsPc' = "effect"
    /\ UNCHANGED <<deals, loading, error, filters, sortConfig, dealsMounted,
                   localStorage, location, sortBy, inFlight, notList>>

\* A response is OK: setDeals(data.deals), setError(null), finally setLoading(false).
ListResponseOk ==
    /\ dealsPc # "redirected"
    /\ \E request \in inFlight :
          /\ deals' = <<request>>
          /\ inFlight' = inFlight \ {request}
    /\ error' = Null
    /\ loading' = FALSE
    /\ UNCHANGED <<filters, sortConfig, dealsMounted, dealsPc, localStorage, location,
                   sortBy, stateFilter, notList>>

\* A response is not OK, fetch rejects or the body does not parse: the catch
\* block sets the error, finally setLoading(false).
ListResponseFail ==
    /\ dealsPc # "redirected"
    /\ \E request \in inFlight : inFlight' = inFlight \ {request}
    /\ \E msg \in {"HTTP error! status: 500", "Failed to fetch"} : error' = Some(msg)
    /\ loading' = FALSE
    /\ UNCHANGED <<deals, filters, sortConfig, dealsMounted, dealsPc, localStorage,
                   location, sortBy, stateFilter, notList>>

\* The 401 branch returning with the finally block skipped.
ListResponse401_NoFinally ==
    /\ dealsPc # "redirected"
    /\ \E request \in inFlight : inFlight' = inFlight \ {request}
    /\ localStorage' = localStorage \ {"auth_token", "user_email"}
    /\ location' = "/login"
    /\ dealsPc' = "redirected"
    /\ UNCHANGED <<deals, error, loading, filters, sortConfig, dealsMounted, sortBy,
                   stateFilter, notList>>
\* A response is 401: both keys are removed, the browser is sent to /login and
\* fetchDeals returns; finally setLoading(false).  The page is then left.
ListResponse401 ==
    /\ dealsPc # "redirected"
    /\ \E request \in inFlight : inFlight' = inFlight \ {request}
    /\ localStorage' = localStorage \ {"auth_token", "user_email"}
    /\ location' = "/login"
    /\ loading' = FALSE
    /\ dealsPc' = "redirected"
    /\ UNCHANGED <<deals, error, filters, sortConfig, dealsMounted, sortBy, stateFilter,
                   notList>>

(***************************************************************************)
(* The news page (src/frontend/pages/news.tsx): the county cards, the days *)
(* filter and the headlines of the selected county.  A request is held as  *)
(* its query [county, days], and data.articles of a response as the        *)
(* one-element list of the request it answers.  The third effect           *)
(* (dependencies selectedCounty, daysFilter) runs before the next event is *)
(* handled, so a handler's step includes fetchNewsForCounty up to its      *)
(* await.                                                                  *)
(***************************************************************************)
\* onClick of a county card: the card of the selected county deselects it.
SelectCounty ==
    /\ \E c \in {"Hudson", "Bergen"} :
          IF selectedCounty = Some(c)
          THEN selectedCounty' = Null /\ UNCHANGED newsInFlight
          ELSE /\ selectedCounty' = Some(c)
               /\ IF "auth_token" \in localStorage
                  THEN newsInFlight' =
                          newsInFlight \cup {[county |-> c, days |-> daysFilter]}
                  ELSE UNCHANGED newsInFlight
    /\ UNCHANGED <<daysFilter, articles, notNews>>

\* "Clear Selection" of the headlines card: setSelectedCounty(null).
ClearSelection ==
    /\ selectedCounty # Null
    /\ selectedCounty' = Null
    /\ UNCHANGED <<daysFilter, articles, newsInFlight, notNews>>

\* onChange of the "Time Period" select: setDaysFilter(Number(value)).
SetDaysFilter ==
    /\ \E d \in {7, 14, 30} \ {daysFilter} :
          /\ daysFilter' = d
          /\ IF selectedCounty # Null /\ "auth_token" \in localStorage
             THEN newsInFlight' =
                     newsInFlight \cup {[county |-> Val(selectedCounty), days |-> d]}
             ELSE UNCHANGED newsInFlight
    /\ UNCHANGED <<selectedCounty, articles, notNews>>

\* fetchNewsForCounty after its await, response OK: setArticles(data.articles).
NewsResponseOk ==
    /\ \E request \in newsInFlight :
          /\ articles' = <<request>>
          /\ newsInFlight' = newsInFlight \ {request}
    /\ UNCHANGED <<selectedCounty, daysFilter, notNews>>

\* The response is not OK, or fetch rejects (the catch block only logs): the
\* article list is left as it is.
NewsResponseFail ==
    /\ \E request \in newsInFlight : newsInFlight' = newsInFlight \ {request}
    /\ UNCHANGED <<selectedCounty, daysFilter, articles, notNews>>

(***************************************************************************)
(* PermitsIngest (src/scripts/features/permits-ingest.js): run fetches the *)
(* permits and hands them to processPermits.                               *)
(***************************************************************************)
MaxPermits == 3

\* permit.type?.toLowerCase().includes(keyword) on the permit types handed in.
Includes(type, keyword) ==
    CASE keyword = "new construction" -> type = "New Construction"
      [] keyword = "renovation" -> type \in {"Renovation", "Renovation and Addition"}
      [] keyword = "addition" -> type \in {"Addition", "Renovation and Addition"}

\* The permits the fetchers hand over: value is parseFloat(...) || 0, zipCode
\* and type fall back to 'Unknown'; recent tells whether issueDate lies within
\* the last 30 days.
PermitPool ==
    {[zipCode |-> "19103", location |-> "Philadelphia", state |-> "PA",
      type |-> "Electrical", value |-> 5000, recent |-> TRUE],
     [zipCode |-> "19103", location |-> "Philadelphia", state |-> "PA",
      type |-> "Renovation", value |-> 75000, recent |-> FALSE],
     [zipCode |-> "19103", location |-> "Philadelphia", state |-> "PA",
      type |-> "New Construction", value |-> 2500000, recent |-> TRUE],
     [zipCode |-> "07302", location |-> "Jersey City", state |-> "NJ",
      type |-> "Addition", value |-> 1000000, recent |-> FALSE],
     [zipCode |-> "07302", location |-> "Jersey City", state |-> "NJ",
      type |-> "Renovation and Addition", value |-> 10000, recent |-> TRUE],
     [zipCode |-> "07302", location |-> "Jersey City", state |-> "NJ",
      type |-> "New Construction", value |-> 250000, recent |-> FALSE],
     [zipCode |-> "Unknown", location |-> "Unknown", state |-> "NJ",
      type |-> "Unknown", value |-> 0, recent |-> FALSE]}

\* Math.min(activityScore, 10) left out.
ActivityScore_Uncapped(permit) ==
    LET base == IF permit.value > 1000000 THEN 10
                ELSE IF permit.value > 500000 THEN 8
                ELSE IF permit.value > 100000 THEN 6
                ELSE IF permit.value > 50000 THEN 4
                ELSE IF permit.value > 10000 THEN 2
                ELSE 1
    IN  base + (IF Includes(permit.type, "new construction") THEN 2 ELSE 0)
             + (IF Includes(permit.type, "renovation") THEN 1 ELSE 0)
             + (IF Includes(permit.type, "addition") THEN 1 ELSE 0)
\* The activityScore of the map callback: the value ladder, the type boosts
\* and Math.min(activityScore, 10).
ActivityScore(permit) ==
    LET base == IF permit.value > 1000000 THEN 10
                ELSE IF permit.value > 500000 THEN 8
                ELSE IF permit.value > 100000 THEN 6
                ELSE IF permit.value > 50000 THEN 4
                ELSE IF permit.value > 10000 THEN 2
                ELSE 1
        boosted == base + (IF Includes(permit.type, "new construction") THEN 2 ELSE 0)
                        + (IF Includes(permit.type, "renovation") THEN 1 ELSE 0)
                        + (IF Includes(permit.type, "addition") THEN 1 ELSE 0)
    IN  IF boosted < 10 THEN boosted ELSE 10

\* The body of the forEach callback on the permit's group.
AddToGroup(group, permit) ==
    LET totalPermits == group.totalPermits + 1
        types == group.permitTypes
        count == IF permit.type \in DOMAIN types THEN types[permit.type] ELSE 0
    IN  [group EXCEPT
            !.totalPermits = totalPermits,
            !.totalValue = group.totalValue + permit.value,
            !.averageScore =
                NDiv(NAdd(NMul(group.averageScore, N(totalPermits - 1)),
                          N(permit.activityScore)), N(totalPermits)),
            !.permitTypes =
                [t \in DOMAIN types \cup {permit.type} |->
                    IF t = permit.type THEN count + 1 ELSE types[t]],
            !.recentActivity = group.recentActivity + (IF permit.recent THEN 1 ELSE 0)]

\* processed.forEach(...): zipCodeGroups after the first i permits, a function
\* from the ZIP codes met to their groups; a ZIP code met for the first time
\* gets a new group.
RECURSIVE GroupsAfter(_, _)
GroupsAfter(processedPermits, i) ==
    IF i = 0 THEN [z \in {} |-> 0]
    ELSE LET groups == GroupsAfter(processedPermits, i - 1)
             permit == processedPermits[i]
             group == IF permit.zipCode \in DOMAIN groups
                      THEN groups[permit.zipCode]
                      ELSE [zipCode |-> permit.zipCode, location |-> permit.location,
                            state |-> permit.state, totalPermits |-> 0,
                            totalValue |-> 0, averageScore |-> N(0),
                            permitTypes |-> [t \in {} |-> 0], recentActivity |-> 0]
         IN  [z \in DOMAIN groups \cup {permit.zipCode} |->
                 IF z = permit.zipCode THEN AddToGroup(group, permit) ELSE groups[z]]

\* What processPermits returns: the permits with their activityScore and
\* processedAt, and Object.values(zipCodeGroups), held as the function from
\* ZIP code to group.
processPermits(ps) ==
    LET processedPermits ==
            [i \in 1..Len(ps) |->
                [zipCode |-> ps[i].zipCode, location |-> ps[i].location,
                 state |-> ps[i].state, type |-> ps[i].type, value |-> ps[i].value,
                 recent |-> ps[i].recent, activityScore |-> ActivityScore(ps[i]),
                 processedAt |-> "now"]]
    IN  [permits |-> processedPermits,
         zipCodeGroups |-> GroupsAfter(processedPermits, Len(processedPermits))]

\* run: the fetchers' permits are combined; with none fetched run returns.
FetchPermits ==
    /\ permits = <<>>
    /\ processed = Null
    /\ \E n \in 1..MaxPermits : \E ps \in [1..n -> PermitPool] : permits' = ps
    /\ UNCHANGED <<processed, notPermits>>

\* run: processedData = this.processPermits(allPermits).
ProcessPermits ==
    /\ permits # <<>>
    /\ processed = Null
    /\ processed' = processPermits(permits)
    /\ UNCHANGED <<permits, notPermits>>

(***************************************************************************)
(* Specifications.  Each part of the program has its own; the variables of *)
(* the other parts stay at their initial values.                           *)
(***************************************************************************)
InitScoreVars ==
    /\ deal = [permit_count |-> 0, rent_growth |-> Null, value_growth |-> Null,
               news_count |-> Null, flood_flag |-> Null, income |-> Null]
    /\ scoreResult = Null
    /\ engineResult = Null

InitDealsVars ==
    /\ deals = <<>>
    /\ loading = TRUE
    /\ error = Null
    /\ filters = defaultFilters
    /\ sortConfig = defaultSortConfig
    /\ dealsMounted = FALSE
    /\ dealsPc = "unmounted"
    /\ localStorage = {"auth_token", "user_email"}
    /\ location = "/deals"

InitUwVars ==
    /\ inputs = defaultInputs
    /\ outputs = Null
    /\ uwMounted = FALSE
    /\ uwPc = "unmounted"
    /\ edits = 0

InitRouteVars ==
    /\ routerPath = "/underwrite"
    /\ storedToken = TRUE
    /\ authMounted = FALSE
    /\ authLoading = TRUE
    /\ isAuthenticated = FALSE
    /\ authPc = "unmounted"
    /\ tokenFound = Null
    /\ visits = 1

\* The useState initial values of the dashboard's calculator, of the refetching
\* deals page and of the news page, and the permits ingest before its run.
InitOtherVars ==
    /\ formData = initialFormData
    /\ results = Null
    /\ sortBy = "rent_growth"
    /\ stateFilter = ""
    /\ inFlight = {}
    /\ selectedCounty = Null
    /\ daysFilter = 14
    /\ articles = <<>>
    /\ newsInFlight = {}
    /\ permits = <<>>
    /\ processed = Null

\* Every part in its initial state: the pages before their mount effects, the
\* dashboard's calculator, the news page once its summary has loaded and the
\* cards are on screen, the permits ingest before its run.
InitAll ==
    /\ InitScoreVars /\ InitBatchVars /\ InitDealsVars /\ InitUwVars /\ InitRouteVars
    /\ InitOtherVars

\* Scoring: a record is drawn, then scored by the page's getScenarioScore and
\* by the engine under a scenario name.
InitScore ==
    /\ deal \in DealMetrics
    /\ scoreResult = Null
    /\ engineResult = Null
    /\ InitBatchVars
    /\ InitDealsVars
    /\ InitUwVars
    /\ InitRouteVars
    /\ InitOtherVars

\* GetScenarioScore with the call normalising an unknown flood flag in place.
GetScenarioScore_MutatesDeal ==
    /\ scoreResult' = getScenarioScore(deal)
    /\ deal' = [deal EXCEPT !.flood_flag =
                   IF IsNull(deal.flood_flag) THEN Some(FALSE) ELSE deal.flood_flag]
    /\ UNCHANGED <<engineResult, notScore>>

GetScenarioScore ==
    /\ scoreResult' = getScenarioScore(deal)
    /\ UNCHANGED <<deal, engineResult, notScore>>

Score ==
    /\ \E s \in ScenarioNames \cup {"S4"} : \E lo \in LadderProfiles :
          engineResult' = score(deal, lo, s)
    /\ UNCHANGED <<deal, scoreResult, notScore>>

NextScore == GetScenarioScore \/ Score

SpecScore == InitScore /\ [][NextScore]_vars

NextBatch == RefreshMetrics \/ BatchScoreRun

SpecBatch == InitAll /\ [][NextBatch]_vars

\* Deals page: a session with or without a stored token opens the page.
InitDeals ==
    /\ InitScoreVars
    /\ InitBatchVars
    /\ deals = <<>>
    /\ loading = TRUE
    /\ error = Null
    /\ filters = defaultFilters
    /\ sortConfig = defaultSortConfig
    /\ dealsMounted = FALSE
    /\ dealsPc = "unmounted"
    /\ localStorage \in {{"auth_token", "user_email"}, {}}
    /\ location = "/deals"
    /\ InitUwVars
    /\ InitRouteVars
    /\ InitOtherVars

NextDeals ==
    \/ MountDeals
    \/ FetchDealsStart
    \/ FetchDealsUnauthorized
    \/ FetchDealsFail
    \/ FetchDealsOk
    \/ handleSort
    \/ SetFilters

SpecDeals == InitDeals /\ [][NextDeals]_vars

NextUnderwrite == MountUnderwrite \/ CalculateUnderwriting \/ handleInputChange

SpecUnderwrite == InitAll /\ [][NextUnderwrite]_vars

\* Protected routes: a session with or without a stored token opens a page.
InitRoute ==
    /\ InitScoreVars
    /\ InitBatchVars
    /\ InitDealsVars
    /\ InitUwVars
    /\ routerPath \in Pages
    /\ storedToken \in BOOLEAN
    /\ authMounted = FALSE
    /\ authLoading = TRUE
    /\ isAuthenticated = FALSE
    /\ authPc = (IF routerPath \in ProtectedPages THEN "unmounted" ELSE "none")
    /\ tokenFound = Null
    /\ visits = 1
    /\ InitOtherVars

NextRoute ==
    \/ OpenPage
    \/ MountProtectedRoute
    \/ CheckAuthentication
    \/ Unauthorized401
    \/ StorageChange

SpecRoute == InitRoute /\ [][NextRoute]_vars

NextForm == FormInputChange \/ CalculateResults

SpecForm == InitAll /\ [][NextForm]_vars

\* The refetching deals page, opened with or without a stored session.
InitList ==
    /\ InitScoreVars /\ InitBatchVars /\ InitUwVars /\ InitRouteVars
    /\ deals = <<>>
    /\ loading = TRUE
    /\ error = Null
    /\ filters = defaultFilters
    /\ sortConfig = defaultSortConfig
    /\ dealsMounted = FALSE
    /\ dealsPc = "unmounted"
    /\ localStorage \in {{"auth_token", "user_email"}, {}}
    /\ location = "/deals"
    /\ InitOtherVars

NextList ==
    \/ ListMount
    \/ ListFetchStart
    \/ SetSortBy
    \/ SetStateFilter
    \/ ListResponseOk
    \/ ListResponseFail
    \/ ListResponse401

SpecList == InitList /\ [][NextList]_vars

\* The effects React has queued run, and every request is answered or fails.
SpecListFair ==
    /\ SpecList
    /\ WF_vars(ListMount)
    /\ WF_vars(dealsPc = "effect" /\ ListFetchStart)
    /\ WF_vars(ListResponseOk \/ ListResponseFail \/ ListResponse401)

NextNews ==
    \/ ClearSelection
    \/ SelectCounty
    \/ SetDaysFilter
    \/ NewsResponseOk
    \/ NewsResponseFail

SpecNews == InitAll /\ [][NextNews]_vars

NextPermits == FetchPermits \/ ProcessPermits

SpecPermits == InitAll /\ [][NextPermits]_vars

(***************************************************************************)
(* Properties of the scoring functions.                                    *)
(***************************************************************************)
EngineScored == engineResult # Null /\ engineResult.error = "none"

\* C1: every score computed for a record lies in [0, 100], for the score the
\* deals page computes with getScenarioScore and for the engine's score
\* under each scenario.
C1_ScoreInRange ==
    /\ scoreResult # Null => scoreResult.score \in 0..100
    /\ EngineScored => engineResult.score \in 0..100

\* C8: exactly the three scenarios S1, S2, S3 exist (a call under any other
\* name is rejected), each gives every one of the six dimensions a weight in
\* [0, 1] (0..100 percent), and the six weights of a scenario sum to 1.0
\* (100 percent); the weights a score reports are those of its scenario.
C8_WeightsComplete ==
    /\ engineResult # Null =>
          (engineResult.error = "none" <=> engineResult.scenario \in {"S1", "S2", "S3"})
    /\ EngineScored =>
          /\ DOMAIN scenario_weights = {"S1", "S2", "S3"}
          /\ \A s \in DOMAIN scenario_weights :
                /\ DOMAIN scenario_weights[s] = Dimensions
                /\ \A dim \in Dimensions : scenario_weights[s][dim] \in 0..100
                /\ SumOver(scenario_weights[s], Dimensions) = 100
          /\ \A dim \in Dimensions :
                engineResult.breakdown[dim].weight
                  = scenario_weights[engineResult.scenario][dim]

\* C8 witness: a record with every additive dimension at sub-score 100 has
\* been scored under S3 and got 100, the whole of the S3 weights.
C8_Witness ==
    /\ EngineScored
    /\ engineResult.scenario = "S3"
    /\ engineResult.score = 100

FlaggedScore(flag) ==
    score([deal EXCEPT !.flood_flag = Some(flag)],
          engineResult.subs, engineResult.scenario).score

C10_PermitMonotone ==
    \A b \in PermitCounts :
        deal.permit_count <= b =>
            /\ scoreResult # Null =>
                  scoreResult.score
                    <= getScenarioScore([deal EXCEPT !.permit_count = b]).score
            /\ EngineScored =>
                  engineResult.score
                    <= score([deal EXCEPT !.permit_count = b],
                             engineResult.subs, engineResult.scenario).score

\* C10 witness: a record with 10 permits has been scored by both functions
\* and each gives the same record with 20 permits a strictly higher score.
C10_Witness ==
    /\ scoreResult # Null
    /\ EngineScored
    /\ deal.permit_count = 10
    /\ scoreResult.score < getScenarioScore([deal EXCEPT !.permit_count = 20]).score
    /\ engineResult.score
         < score([deal EXCEPT !.permit_count = 20],
                 engineResult.subs, engineResult.scenario).score

(***************************************************************************)
(* Properties of the batch job's store.                                    *)
(***************************************************************************)
\* C2: after any sequence of batch runs the table holds at most one row per
\* (zip_code, scenario) pair, and once a run has happened that row is the
\* one the newest run wrote for the pair (stamped with that run, holding
\* the score and the metrics snapshot that run computed from).
C2_OneCurrentScore ==
    \A i \in 1..Len(BatchPairs) :
        LET rows == RowsOf(deal_scores, BatchPairs[i][1], BatchPairs[i][2])
        IN  /\ Cardinality(rows) <= 1
            /\ now > 0 =>
                  /\ Cardinality(rows) = 1
                  /\ \A r \in rows :
                        /\ r.scored_at = now
                        /\ r.id >= next_id - Len(BatchPairs)
                        /\ r.score \in 0..100

\* C2 witness: a second run has replaced the rows of the first one, after
\* the metrics of a ZIP were refreshed in between.
C2_Witness ==
    /\ now = 2
    /\ \E r \in deal_scores :
          /\ r.scored_at = 2
          /\ r.id > Len(BatchPairs)
          /\ r.metrics.permit_count = 80


(***************************************************************************)
(* Deals page: the ranked table.                                           *)
(***************************************************************************)
\* The score shown in a row's Score column.
RowScore(d) == getScenarioScore(d).score

\* C3: the ranked output is ordered by descending score, records with equal
\* score appear in ascending zip_code order, and the same collection of
\* records yields the same output sequence whatever order it arrives in.
C3_RankingDeterministic ==
    TableShown =>
        /\ \A i, j \in DOMAIN processedDeals :
              i < j =>
                 /\ RowScore(processedDeals[i]) >= RowScore(processedDeals[j])
                 /\ RowScore(processedDeals[i]) = RowScore(processedDeals[j])
                       => processedDeals[i].zip_code < processedDeals[j].zip_code
        /\ \A p \in {f \in [DOMAIN deals -> DOMAIN deals] :
                          \A i, j \in DOMAIN deals : i # j => f[i] # f[j]} :
              filteredAndSortedDeals([i \in DOMAIN deals |-> deals[p[i]]],
                                     filters, sortConfig) = processedDeals


(***************************************************************************)
(* Underwriting page.  Once the queued effect has run (uwPc = "idle") the  *)
(* displayed outputs are the ones computed from the current inputs.        *)
(***************************************************************************)
\* C4: monthly_noi = monthly_rent - (taxes/12 + insurance/12 + management +
\* rent * vacancy/100) for every input; it does not change with the loan
\* amount, rate or term, while monthly_expenses is that operating total plus
\* the mortgage payment.
C4_NoiExcludesDebtService ==
    (uwPc = "idle" /\ outputs # Null) =>
        /\ outputs.monthlyNOI = NSub(inputs.monthlyRent, operatingExpenses(inputs))
        /\ outputs.monthlyNOI = calculateUnderwriting(defaultInputs).monthlyNOI
              \/ \E f \in Fields \ {"loanAmount", "interestRate", "loanTerm"} :
                    inputs[f] # defaultInputs[f]
        /\ outputs.monthlyExpenses
              = NAdd(monthlyMortgage(inputs), operatingExpenses(inputs))

\* C5: an input whose purchase price or loan term is not positive is
\* rejected: no outputs computed from it are displayed.
C5_InvalidInputRejected ==
    (uwPc = "idle"
       /\ (~NGe(inputs.purchasePrice, N(0)) \/ IsZero(inputs.purchasePrice)
             \/ ~NGe(inputs.loanTerm, N(0)) \/ IsZero(inputs.loanTerm)))
      => outputs = Null

\* C6: at interest rate 0 with a positive term the payment is
\* loanAmount / (loanTerm * 12), and the outputs derived from the payment are
\* defined numbers.
C6_ZeroInterestPayment ==
    (uwPc = "idle" /\ outputs # Null
       /\ IsZero(inputs.interestRate)
       /\ NGe(inputs.loanTerm, N(0)) /\ ~IsZero(inputs.loanTerm))
      => /\ monthlyMortgage(inputs)
              = NDiv(inputs.loanAmount, NMul(inputs.loanTerm, N(12)))
         /\ ~IsNaN(outputs.monthlyExpenses)
         /\ ~IsNaN(outputs.monthlyNOI)
         /\ ~IsNaN(outputs.annualNOI)
         /\ ~IsNaN(outputs.capRate)
         /\ ~IsNaN(outputs.cashOnCash)
         /\ ~IsZero(inputs.loanAmount) => ~IsNaN(outputs.dscr)


\* C7: when the monthly mortgage payment is 0 (nothing is borrowed: the down
\* payment is 100 %, or the purchase price 0) and the results on screen are
\* those of the form data on screen, the dscr shown is an infinity or NaN, not
\* an ordinary finite ratio.
C7_ZeroPaymentDscr ==
    LET loanAmount ==
            NSub(formData.purchasePrice,
                 NDiv(NMul(formData.purchasePrice, formData.downPayment), N(100)))
    IN  (results # Null /\ results = calculateResults(formData) /\ IsZero(loanAmount))
           => results.dscr \in {PosInf, NegInf, NaN}


(***************************************************************************)
(* Further properties of the scoring functions.                            *)
(***************************************************************************)
\* Every optional metric the scoring functions read is unknown.
AllUnknown(d) ==
    /\ IsNull(d.rent_growth)
    /\ IsNull(d.value_growth)
    /\ IsNull(d.news_count)
    /\ IsNull(d.flood_flag)
    /\ IsNull(d.income)

\* C11 (as stated): a record whose optional fields are all unknown scores 0
\* under each scenario, for every value of permit_count.
C11_AllUnknownScoresZero ==
    AllUnknown(deal) =>
        /\ scoreResult # Null => scoreResult.score = 0
        /\ EngineScored => engineResult.score = 0

\* C11 (amended): a record whose optional fields are all unknown scores
\* exactly the contribution of its permit_count: no other dimension
\* contributes and no penalty applies, and the score is 0 exactly when
\* permit_count is below the lowest permit band (5 on the deals page, the
\* lowest bound of the scenario's permit ladder in the engine).
C11_AllUnknownScoresPermitsOnly ==
    AllUnknown(deal) =>
        /\ scoreResult # Null =>
              /\ scoreResult.score
                   = (IF deal.permit_count >= 20 THEN 30
                      ELSE IF deal.permit_count >= 10 THEN 20
                      ELSE IF deal.permit_count >= 5 THEN 10 ELSE 0)
        /\ EngineScored =>
              /\ \A dim \in Dimensions \ {"permit_count"} :
                    engineResult.breakdown[dim].contribution = 0
              /\ engineResult.score = engineResult.breakdown["permit_count"].contribution
              /\ engineResult.score
                   = (scenario_weights[engineResult.scenario]["permit_count"]
                        * LadderSubScore(PermitLadder[engineResult.scenario],
                                         deal.permit_count)) \div 100
              /\ engineResult.score = 0
                   <=> deal.permit_count
                         < PermitLadder[engineResult.scenario]
                                       [Len(PermitLadder[engineResult.scenario])][1]

\* C11 witness: a record with 50 permits and nothing else known has been
\* scored 30 by the page and 25 (the whole S1 permit weight) by the engine.
C11_Witness ==
    /\ AllUnknown(deal)
    /\ deal.permit_count = 50
    /\ scoreResult # Null
    /\ scoreResult.score = 30
    /\ EngineScored
    /\ engineResult.scenario = "S1"
    /\ engineResult.score = 25


\* Rent growth percentages below, on, between and above every ladder bound.
RentGrowthRange == (0 - 2)..16

\* The deal with its rent_growth replaced by y.
WithRentGrowth(y) == [deal EXCEPT !.rent_growth = Some(y)]

\* C12: under each scenario the rent_growth ladder is monotone: for x <= y
\* the sub-score of y is never lower than that of x, and neither are the
\* contribution and the score of a record whose rent_growth is raised to y;
\* the sub-score is that of the first ladder entry, highest bound first,
\* whose bound the value meets, and 0 if none is met.
C12_RentGrowthMonotone ==
    /\ EngineScored =>
          LET s == engineResult.scenario
              lo == engineResult.subs
              ladder == RentGrowthLadder[s]
          IN  /\ \A i, j \in DOMAIN ladder : i < j => ladder[i][1] > ladder[j][1]
              /\ \A x, y \in RentGrowthRange :
                    x <= y => LadderSubScore(ladder, x) <= LadderSubScore(ladder, y)
              /\ \A x \in RentGrowthRange :
                    SubScore(WithRentGrowth(x), lo, s, "rent_growth")
                      = (IF x >= ladder[1][1] THEN ladder[1][2]
                         ELSE IF x >= ladder[2][1] THEN ladder[2][2]
                         ELSE IF x >= ladder[3][1] THEN ladder[3][2]
                         ELSE IF x >= ladder[4][1] THEN ladder[4][2]
                         ELSE 0)
              /\ ~IsNull(deal.rent_growth) =>
                    \A y \in RentGrowthRange :
                        Val(deal.rent_growth) <= y =>
                           /\ Contribution(deal, lo, s, "rent_growth")
                                <= Contribution(WithRentGrowth(y), lo, s, "rent_growth")
                           /\ engineResult.score <= score(WithRentGrowth(y), lo, s).score
    /\ scoreResult # Null =>
          /\ \A x, y \in RentGrowthRange :
                x <= y =>
                   RentGrowthBonus(WithRentGrowth(x)) <= RentGrowthBonus(WithRentGrowth(y))
          /\ ~IsNull(deal.rent_growth) =>
                \A y \in RentGrowthRange :
                    Val(deal.rent_growth) <= y =>
                       scoreResult.score <= getScenarioScore(WithRentGrowth(y)).score

\* C12 witness: a record with 4 percent rent growth has been scored under S1
\* (sub-score 60) and by the page (bonus 15); 6 percent gives 80 and 25.
C12_Witness ==
    /\ EngineScored
    /\ scoreResult # Null
    /\ engineResult.scenario = "S1"
    /\ deal.rent_growth = Some(4)
    /\ SubScore(deal, engineResult.subs, "S1", "rent_growth") = 60
    /\ SubScore(WithRentGrowth(6), engineResult.subs, "S1", "rent_growth") = 80
    /\ RentGrowthBonus(deal) = 15
    /\ RentGrowthBonus(WithRentGrowth(6)) = 25


\* C13: the ladders tighten with aggressiveness: for every permit_count and
\* every rent_growth the sub-score under S1 is >= that under S2, which is
\* >= that under S3; entry by entry the bounds of S1 are <= those of S2,
\* which are <= those of S3, for the same sub-score.
C13_LaddersTighten ==
    EngineScored =>
        /\ \A v \in (0..81) \cup {deal.permit_count} :
              /\ LadderSubScore(PermitLadder["S1"], v) >= LadderSubScore(PermitLadder["S2"], v)
              /\ LadderSubScore(PermitLadder["S2"], v) >= LadderSubScore(PermitLadder["S3"], v)
        /\ \A x \in RentGrowthRange :
              /\ LadderSubScore(RentGrowthLadder["S1"], x)
                   >= LadderSubScore(RentGrowthLadder["S2"], x)
              /\ LadderSubScore(RentGrowthLadder["S2"], x)
                   >= LadderSubScore(RentGrowthLadder["S3"], x)
        /\ \A dim \in {"permit_count", "rent_growth"} :
              /\ SubScore(deal, engineResult.subs, "S1", dim)
                   >= SubScore(deal, engineResult.subs, "S2", dim)
              /\ SubScore(deal, engineResult.subs, "S2", dim)
                   >= SubScore(deal, engineResult.subs, "S3", dim)
        /\ \A i \in 1..4 :
              /\ PermitLadder["S1"][i][2] = PermitLadder["S2"][i][2]
              /\ PermitLadder["S2"][i][2] = PermitLadder["S3"][i][2]
              /\ PermitLadder["S1"][i][1] <= PermitLadder["S2"][i][1]
              /\ PermitLadder["S2"][i][1] <= PermitLadder["S3"][i][1]
              /\ RentGrowthLadder["S1"][i][2] = RentGrowthLadder["S2"][i][2]
              /\ RentGrowthLadder["S2"][i][2] = RentGrowthLadder["S3"][i][2]
              /\ RentGrowthLadder["S1"][i][1] <= RentGrowthLadder["S2"][i][1]
              /\ RentGrowthLadder["S2"][i][1] <= RentGrowthLadder["S3"][i][1]

\* C13 witness: a record with 30 permits and 8 percent rent growth, scored
\* under S3: its permit sub-scores are 80, 60, 60 and its rent growth
\* sub-scores 100, 80, 60 under S1, S2, S3.
C13_Witness ==
    /\ EngineScored
    /\ engineResult.scenario = "S3"
    /\ deal.permit_count = 30
    /\ deal.rent_growth = Some(8)
    /\ SubScore(deal, engineResult.subs, "S1", "permit_count") = 80
    /\ SubScore(deal, engineResult.subs, "S2", "permit_count") = 60
    /\ SubScore(deal, engineResult.subs, "S3", "permit_count") = 60
    /\ SubScore(deal, engineResult.subs, "S1", "rent_growth") = 100
    /\ SubScore(deal, engineResult.subs, "S2", "rent_growth") = 80
    /\ SubScore(deal, engineResult.subs, "S3", "rent_growth") = 60


\* A result that carries a breakdown: for each of the six dimensions the
\* weight applied and a signed contribution (negative only for the flood
\* penalty), the contributions summing to a total whose clamp to [0, 100]
\* is the reported score.
HasBreakdown(result) ==
    /\ "breakdown" \in DOMAIN result
    /\ DOMAIN result.breakdown = Dimensions
    /\ \A dim \in Dimensions :
          /\ DOMAIN result.breakdown[dim] = {"weight", "contribution"}
          /\ dim # "flood_flag" => result.breakdown[dim].contribution >= 0
          /\ dim = "flood_flag" => result.breakdown[dim].contribution <= 0
    /\ result.score
         = Clamp(SumOver([dim \in Dimensions |-> result.breakdown[dim].contribution],
                         Dimensions))

\* C14: for every record and scenario the result carries a breakdown with
\* the weight and signed contribution of each of the six dimensions, the
\* contributions sum to the unclamped total, and the reported score is
\* that total clamped to [0, 100]; this holds for the score the deals page
\* computes and for the engine's.
C14_BreakdownExposed ==
    /\ scoreResult # Null =>
          /\ HasBreakdown(scoreResult)
          /\ scoreResult.score
               = Clamp(PermitBonus(deal) + RentGrowthBonus(deal) + ValueGrowthBonus(deal)
                         + NewsBonus(deal) - FloodPenalty(deal))
    /\ EngineScored =>
          /\ HasBreakdown(engineResult)
          /\ engineResult.total
               = SumOver([dim \in Dimensions |-> engineResult.breakdown[dim].contribution],
                         Dimensions)


\* C15: score called with a scenario name other than S1, S2 or S3 fails with
\* InvalidScenario and yields no score; called with a valid scenario it
\* never fails, whatever subset of the optional metrics is missing.
C15_InvalidScenarioOnly ==
    engineResult # Null =>
        /\ engineResult.scenario \notin {"S1", "S2", "S3"} =>
              /\ engineResult.error = "InvalidScenario"
              /\ engineResult.score = Null
              /\ engineResult.breakdown = Null
        /\ engineResult.scenario \in {"S1", "S2", "S3"} =>
              /\ engineResult.error = "none"
              /\ engineResult.score \in Int
        /\ engineResult.error \in {"none", "InvalidScenario"}

\* C15 witness: a record has been scored under the name S4 and the call
\* failed with InvalidScenario.
C15_Witness ==
    /\ engineResult # Null
    /\ engineResult.scenario = "S4"
    /\ engineResult.error = "InvalidScenario"
    /\ engineResult.score = Null


\* C16: scoring has no side effects: a score call changes nothing but its
\* own result (the record, the other function's result and all other state
\* stay as they were), and its result is the function of its arguments
\* alone, whatever calls came before it and in whatever order.
C16_ScoringPure ==
    [][/\ deal' = deal
       /\ UNCHANGED notScore
       /\ scoreResult' # scoreResult =>
             /\ scoreResult' = getScenarioScore(deal)
             /\ engineResult' = engineResult
       /\ engineResult' # engineResult =>
             /\ engineResult'
                  = score(deal, engineResult'.subs, engineResult'.scenario)
             /\ scoreResult' = scoreResult]_vars

\* C16 witness: a record with an unknown flood flag has been scored by the
\* page and, after calls under other names, by the engine under S2; both
\* results are those of scoring the record alone.
C16_Witness ==
    /\ scoreResult # Null
    /\ EngineScored
    /\ engineResult.scenario = "S2"
    /\ IsNull(deal.flood_flag)
    /\ deal.permit_count = 40
    /\ scoreResult = getScenarioScore(deal)
    /\ engineResult = score(deal, engineResult.subs, "S2")


(***************************************************************************)
(* Further properties of the underwriting page.                            *)
(***************************************************************************)
\* C17: every valid output is assigned exactly one risk level: Low (green)
\* when dscr >= 1.25 and capRate >= 8, Medium (yellow) when it is not Low
\* and dscr >= 1.0 and capRate >= 6, High (red) in every other case.
C17_OneRiskLevel ==
    (uwPc = "idle" /\ outputs # Null
       /\ IsFinite(outputs.dscr) /\ IsFinite(outputs.capRate))
      => RiskAssessment(outputs)
           = {IF NGe(outputs.dscr, Norm(5, 4)) /\ NGe(outputs.capRate, N(8))
              THEN "bg-green-50 text-green-800"
              ELSE IF NGe(outputs.dscr, N(1)) /\ NGe(outputs.capRate, N(6))
              THEN "bg-yellow-50 text-yellow-800"
              ELSE "bg-red-50 text-red-800"}


\* C18: every input change triggers a recomputation: whenever no effect is
\* pending after any sequence of edits, the displayed outputs are exactly
\* calculateUnderwriting applied to the current inputs, so outputs of
\* earlier inputs are on display only while the recomputation is queued.
C18_OutputsCurrent ==
    /\ uwPc = "idle" =>
          /\ outputs # Null
          /\ outputs = calculateUnderwriting(inputs)
    /\ (uwMounted /\ edits > 0 /\ uwPc # "idle") => uwPc = "effect"
    /\ uwPc = "unmounted" => (outputs = Null /\ edits = 0)

\* C18 witness: after two edits the outputs on display are those of the
\* edited inputs and differ from those of the default inputs.
C18_Witness ==
    /\ uwPc = "idle"
    /\ edits = 2
    /\ inputs # defaultInputs
    /\ outputs = calculateUnderwriting(inputs)
    /\ outputs # calculateUnderwriting(defaultInputs)


\* C20: after any sequence of input edits the inputs the calculator computes
\* from have every monetary field non-negative and interestRate and
\* vacancyRate within [0, 100].
C20_InputsInRange ==
    uwMounted =>
        /\ \A f \in Fields \ {"vacancyRate", "interestRate", "loanTerm"} :
              NGe(inputs[f], N(0))
        /\ \A f \in {"interestRate", "vacancyRate"} :
              NGe(inputs[f], N(0)) /\ NGe(N(100), inputs[f])

(***************************************************************************)
(* Properties of the protected routes.                                     *)
(***************************************************************************)
\* C19: every dashboard page shows its content only when the access check
\* of the visit found an auth_token in localStorage; when the check found
\* none the route is /login and the content is not rendered.
C19_ContentOnlyWithToken ==
    /\ ContentShown => tokenFound = Some(TRUE)
    /\ tokenFound = Some(FALSE) => (routerPath = "/login" /\ ~ContentShown)


(***************************************************************************)
(* Further properties of the underwriting page's inputs and outputs.       *)
(***************************************************************************)
\* C21: an input that is empty or not a number is treated as 0: the edit
\* sets only its own field (to 0) and leaves every other field as it was,
\* so no input is ever NaN and at most one field per edit differs from the
\* defaults, and the calculation proceeds to a complete output record.
C21_UnparsableIsZero ==
    /\ \A field \in Fields : \A value \in {"", "abc"} :
          [inputs EXCEPT ![field] = OrZero(parseFloat(value))]
             = [g \in Fields |-> IF g = field THEN N(0) ELSE inputs[g]]
    /\ \A field \in Fields : ~IsNaN(inputs[field])
    /\ Cardinality({field \in Fields : inputs[field] # defaultInputs[field]}) <= edits
    /\ uwPc = "idle" =>
          /\ outputs # Null
          /\ DOMAIN outputs =
                {"totalInvestment", "monthlyExpenses", "monthlyNOI", "annualNOI",
                 "capRate", "cashOnCash", "dscr", "flipMargin", "flipROI"}
          /\ \A m \in DOMAIN outputs : outputs[m].k \in {"fin", "nan", "pinf", "ninf"}

\* C21 witness: the rent and the insurance were cleared; both are 0, the
\* other ten fields are the defaults, and outputs have been computed.
C21_Witness ==
    /\ uwPc = "idle"
    /\ edits = 2
    /\ inputs = [defaultInputs EXCEPT !.monthlyRent = N(0), !.insurance = N(0)]
    /\ outputs # Null
    /\ \A m \in DOMAIN outputs : outputs[m].k \in {"fin", "nan", "pinf", "ninf"}
    /\ outputs.monthlyNOI = Norm(0 - 750, 1)


(***************************************************************************)
(* The calculator of the dashboard (UnderwriteForm).                       *)
(***************************************************************************)
\* C22: when the results on screen are those of the form data on screen, the
\* cap rate is annual NOI / after-repair value * 100 (the NOI as the form
\* computes it), and a change of the purchase price or of the rehab cost alone
\* leaves the cap rate unchanged.
C22_CapRateAgainstArv ==
    (results # Null /\ results = calculateResults(formData)) =>
        LET loanAmount ==
                NSub(formData.purchasePrice,
                     NDiv(NMul(formData.purchasePrice, formData.downPayment), N(100)))
            mortgage == NDiv(NMul(loanAmount, N(5)), N(1000))
            netOperatingIncome ==
                NSub(NMul(formData.monthlyRent, N(12)),
                     NMul(NAdd(formData.monthlyExpenses, mortgage), N(12)))
        IN  /\ results.capRate =
                  NMul(NDiv(netOperatingIncome, formData.afterRepairValue), N(100))
            /\ \A field \in {"purchasePrice", "rehabCost"} :
                  \A value \in FormEdits[field] :
                     calculateResults(
                        [formData EXCEPT ![field] = OrZero(parseFloat(value))]).capRate
                        = results.capRate

\* C23: when the results on screen are those of the form data on screen, cash
\* on cash is operating NOI (the rent of a year less the monthly expenses of a
\* year, no mortgage payment subtracted) / total investment * 100, the total
\* investment being purchase price + rehab cost (the form has no closing
\* costs), whatever the down payment.
C23_CashOnCashOperating ==
    (results # Null /\ results = calculateResults(formData)) =>
        LET operatingNoi ==
                NSub(NMul(formData.monthlyRent, N(12)),
                     NMul(formData.monthlyExpenses, N(12)))
        IN  /\ results.cashOnCash =
                  NMul(NDiv(operatingNoi,
                            NAdd(formData.purchasePrice, formData.rehabCost)), N(100))
            /\ \A value \in FormEdits["downPayment"] :
                  calculateResults(
                     [formData EXCEPT !.downPayment = OrZero(parseFloat(value))]).cashOnCash
                     = results.cashOnCash


(***************************************************************************)
(* The Underwrite page on its default inputs.                              *)
(***************************************************************************)
\* C24: for purchase price 300000, rehab 50000, ARV 400000, rent 2500, taxes
\* 6000, insurance 1200, management 250, vacancy 5 %, loan 240000 at 7.5 % over
\* 30 years and closing costs 9000, the monthly mortgage payment is about 1,678
\* (within a dollar), and the dscr and the cap rate shown are positive and finite.
C24_DefaultsMortgage ==
    inputs = [purchasePrice |-> N(300000), rehabCost |-> N(50000),
              afterRepairValue |-> N(400000), monthlyRent |-> N(2500),
              propertyTaxes |-> N(6000), insurance |-> N(1200),
              propertyManagement |-> N(250), vacancyRate |-> N(5),
              loanAmount |-> N(240000), interestRate |-> Norm(75, 10),
              loanTerm |-> N(30), closingCosts |-> N(9000)]
    => /\ LET payment == monthlyMortgage(inputs)
          IN  IsFinite(payment) /\ NGe(payment, N(1677)) /\ NGe(N(1679), payment)
       /\ uwPc = "idle" =>
             /\ outputs # Null
             /\ NSub(outputs.monthlyExpenses, operatingExpenses(inputs))
                   = monthlyMortgage(inputs)
             /\ IsFinite(outputs.dscr) /\ Sign(outputs.dscr) = 1
             /\ IsFinite(outputs.capRate) /\ Sign(outputs.capRate) = 1

C24_Witness ==
    /\ uwPc = "idle"
    /\ edits = 0
    /\ inputs = defaultInputs
    /\ outputs # Null
    /\ monthlyMortgage(inputs) = Norm(167812, 100)
    /\ outputs.capRate = Norm(183, 40)
    /\ IsFinite(outputs.dscr) /\ Sign(outputs.dscr) = 1


(***************************************************************************)
(* The refetching deals page: selections and responses.                    *)
(***************************************************************************)
\* C25: once the table is on screen and no request is in flight, the deals
\* shown are the response to the request for the sortBy and stateFilter
\* selected last; requests never overlap, the selects being replaced by the
\* spinner while one is in flight.
C25_ShowsLatestSelection ==
    /\ (ControlsShown /\ inFlight = {})
          => deals = <<[sort_by |-> sortBy, state |-> stateFilter]>>
    /\ Cardinality(inFlight) <= 1
    /\ inFlight # {} => loading

C25_Witness ==
    /\ ControlsShown /\ inFlight = {}
    /\ sortBy = "permit_count" /\ stateFilter = "PA"
    /\ deals = <<[sort_by |-> "permit_count", state |-> "PA"]>>


(***************************************************************************)
(* The news page: the headlines of the selected county.                    *)
(***************************************************************************)
\* C26: whenever a county is selected and no request is in flight, the
\* articles on screen are the response for the selected county and the days
\* filter on screen.
C26_ArticlesOfSelection ==
    (selectedCounty # Null /\ newsInFlight = {})
        => articles = <<[county |-> Val(selectedCounty), days |-> daysFilter]>>


(***************************************************************************)
(* fetchDeals: the 401 answer and the loading flag.                        *)
(***************************************************************************)
\* C27: the step that takes a 401 answer removes auth_token and user_email
\* from localStorage, sends the browser to /login and leaves the deals list
\* and the error message as they were.
C27_UnauthorizedKeepsList ==
    [][(dealsPc = "inflight" /\ dealsPc' = "redirected")
          => /\ localStorage' \cap {"auth_token", "user_email"} = {}
             /\ location' = "/login"
             /\ deals' = deals
             /\ error' = error]_vars

C27_Witness ==
    /\ dealsPc = "redirected"
    /\ Len(deals) > 0
    /\ localStorage = {}
    /\ location = "/login"


\* C28: whenever the page is loading (before its first fetchDeals, or with a
\* request in flight), loading is false again later: every invocation of
\* fetchDeals ends with setLoading(false), whatever the outcome.
C28_LoadingEnds == loading ~> ~loading

\* A fetchDeals invocation that ended in the 401 branch, after an earlier
\* success and a change of the selection.
C28_Witness ==
    /\ dealsPc = "redirected"
    /\ ~loading
    /\ inFlight = {}
    /\ Len(deals) > 0
    /\ localStorage = {}


(***************************************************************************)
(* The deals table: filtering and sorting.                                 *)
(***************************************************************************)
\* C29: the list shown holds exactly the stored deals that satisfy every
\* active filter (state, minimum rent index, minimum permits, hide N/A), each
\* as often as it is stored (at most once), and a change of the filters or of
\* the sort order leaves the stored list as it is.
C29_FilterPure ==
    /\ [](LET shown == processedDeals
              Satisfies(d) ==
                  /\ filters.state # "" => d.state = filters.state
                  /\ ~IsNull(filters.minRentIndex) =>
                        (~IsNull(d.rent_index)
                           /\ Val(d.rent_index) >= Val(filters.minRentIndex))
                  /\ ~IsNull(filters.minPermits) =>
                        d.permit_count >= Val(filters.minPermits)
                  /\ filters.hideNA =>
                        (~IsNull(d.rent_index) /\ ~IsNull(d.home_value_index)
                           /\ ~IsNull(d.income) /\ ~IsNull(d.population))
              Count(ds, d) == Cardinality({i \in DOMAIN ds : ds[i] = d})
          IN  \A d \in DealPool :
                 /\ Count(shown, d) = (IF Satisfies(d) THEN Count(deals, d) ELSE 0)
                 /\ Count(shown, d) <= 1)
    /\ [][(filters' # filters \/ sortConfig' # sortConfig) => deals' = deals]_vars

C29_Witness ==
    /\ TableShown
    /\ Len(deals) = 3
    /\ filters.state = "NJ" /\ filters.hideNA
    /\ Len(processedDeals) = 1
    /\ processedDeals[1] \in {deals[i] : i \in DOMAIN deals}


(***************************************************************************)
(* processPermits.                                                         *)
(***************************************************************************)
\* C30: every processed permit has an activityScore in 1..10; the ZIP groups
\* are those of the permits' ZIP codes, one group per code, so that each
\* permit is counted in exactly one group; each group's totalPermits is the
\* number of its permits and its averageScore their mean activityScore.
C30_GroupsConsistent ==
    processed # Null =>
        LET out == processed.permits
            groups == processed.zipCodeGroups
            Of(z) == {i \in DOMAIN permits : permits[i].zipCode = z}
            Total(z) == SumOver([i \in Of(z) |-> out[i].activityScore], Of(z))
        IN  /\ Len(out) = Len(permits)
            /\ \A i \in DOMAIN out :
                  /\ out[i].activityScore \in 1..10
                  /\ out[i].zipCode = permits[i].zipCode
                  /\ Cardinality({z \in DOMAIN groups : out[i].zipCode = groups[z].zipCode}) = 1
            /\ DOMAIN groups = {permits[i].zipCode : i \in DOMAIN permits}
            /\ \A z \in DOMAIN groups :
                  /\ groups[z].zipCode = z
                  /\ groups[z].totalPermits = Cardinality(Of(z))
                  /\ groups[z].averageScore = Norm(Total(z), Cardinality(Of(z)))

\* Three permits of one ZIP code with the scores 1, 5 and 10 (12 before the
\* cap): their group holds 3 permits and the mean 16/3.
C30_Witness ==
    /\ processed # Null
    /\ Len(permits) = 3
    /\ DOMAIN processed.zipCodeGroups = {"19103"}
    /\ {processed.permits[i].activityScore : i \in 1..3} = {1, 5, 10}
    /\ processed.zipCodeGroups["19103"].totalPermits = 3
    /\ processed.zipCodeGroups["19103"].averageScore = Norm(16, 3)

====
